---- MODULE Spec2Model ----
(***************************************************************************)
(* Multi-provider generative-AI gateway of musubisuite.                    *)
(*                                                                         *)
(* Part 1: the configuration store (ai_settings/models.py): AIProvider and *)
(*         SearchEngineConfig rows, their save(), the serializers that     *)
(*         call it, and provider resolution (AIClient.__init__,            *)
(*         get_ai_client).                                                 *)
(* Part 2: one call through the gateway (ai_services/llm_client.py) and    *)
(*         the SSE framing built on it.                                    *)
(*                                                                         *)
(* Text is a sequence of one-character strings; an optional value is a     *)
(* sequence of length 0 (None) or 1; Python keyword arguments are a        *)
(* function whose domain is the set of keys the caller supplied.           *)
(***************************************************************************)
EXTENDS Integers, Sequences, FiniteSets, TLC

VARIABLES
    providers,   \* table ai_providers: sequence of rows, pk = index
    searches,    \* table search_engine_configs: sequence of rows, pk = index
    res,         \* outcome of the last provider resolution
    call,        \* the gateway operation invoked and its arguments
    pc,          \* where the call stands
    client,      \* the AIClient built for the call: its provider and api_key
    vcall,       \* the vendor call issued, with the parameters handed to it
    conn,        \* the transport connection of the call
    frames,      \* the vendor frames (or the one response) that have arrived
    held,        \* the chunk yielded by the adapter, on its way to the consumer
    yielded,     \* the chunks generate_stream has yielded to its consumer
    received,    \* what the consumer of the call holds (chunks, or SSE events)
    full_response, \* the accumulator of generate()
    outcome,     \* how the call ended
    fault,       \* where a failure of the call arose ("none": nowhere)
    ocr_req,     \* process_ocr: the arguments and the caller
    ocr_pc,      \* process_ocr: where the call stands
    ocr_steps,   \* process_ocr: the gateway operations called so far
    ocr_response, \* process_ocr: what generate_with_image returned
    ocr_outcome, \* process_ocr: how the call ended, and the HTTP answer
    val_call,    \* validate_ocr_result: the argument and the verdict
    enr_call,    \* client enrichment: the input and the outcome
    _enrichment_service, \* the module global of client_enrichment.py
    fetch,       \* fetch_company_info: the position and the vendor calls
    saving,      \* concurrent save() calls: the position of each
    ai_settings, \* the ai_settings table: pk -> values
    settings_obj \* the AISettings instance last saved, deleted or loaded

storeVars == <<providers, searches, res>>
callVars ==
    <<call, pc, client, vcall, conn, frames, held, yielded, received,
      full_response, outcome, fault>>
pipeVars ==
    <<ocr_req, ocr_pc, ocr_steps, ocr_response, ocr_outcome, val_call, enr_call>>
serviceVars == <<_enrichment_service, fetch>>
settingsVars == <<saving, ai_settings, settings_obj>>
vars == <<providers, searches, res, call, pc, client, vcall, conn, frames,
          held, yielded, received, full_response, outcome, fault,
          ocr_req, ocr_pc, ocr_steps, ocr_response, ocr_outcome, val_call,
          enr_call, _enrichment_service, fetch, saving, ai_settings,
          settings_obj>>

----------------------------------------------------------------------------
(* Bounds *)

MaxProviders == 2
MaxSearch == 2

----------------------------------------------------------------------------
(* Values *)

\* A pk of None (an instance not yet stored).
NoPk == 0

Names == {"GPT-4", "Claude"}

\* Plain API keys; "" is the empty key.
PlainKeys == {"", "sk-1"}

\* Fernet.encrypt: the stored text is a token that carries the plaintext.
Encrypt(plain) == <<"fernet", plain>>

\* Stored api_key_encrypted values: empty text, text that is no valid token
\* (written by hand in the admin form, or encrypted under another
\* SECRET_KEY), and valid tokens.
CipherTexts == {<<>>, <<"garbage">>} \cup {Encrypt(k) : k \in PlainKeys}

\* Fernet.decrypt: <<ok, plaintext>>; ok = FALSE models InvalidToken.
Decrypt(token) ==
    IF Len(token) = 2 /\ token[1] = "fernet"
    THEN <<TRUE, token[2]>>
    ELSE <<FALSE, "">>

\* AIProvider.get_api_key mutated: a token that does not decrypt is handed
\* back as if it were the key.
get_api_key_NoCatch(row) ==
    IF row.api_key_encrypted = <<>> THEN ""
    ELSE IF Decrypt(row.api_key_encrypted)[1]
         THEN Decrypt(row.api_key_encrypted)[2]
         ELSE "garbage"

\* AIProvider.get_api_key / SearchEngineConfig.get_api_key
get_api_key(row) ==
    IF row.api_key_encrypted = <<>> THEN ""
    ELSE IF Decrypt(row.api_key_encrypted)[1]
         THEN Decrypt(row.api_key_encrypted)[2]
         ELSE ""

\* AIProvider.set_api_key: an empty key leaves the row untouched.
set_api_key(row, api_key) ==
    IF api_key = "" THEN row
    ELSE [row EXCEPT !.api_key_encrypted = Encrypt(api_key)]

\* The fields of an AIProvider the serializer validates (validated_data);
\* those that play no part in save() or in resolution are left out.
ProviderFields(names) ==
    [name : names, is_active : BOOLEAN, is_default : BOOLEAN]

\* A row: the validated fields and the stored api_key_encrypted.
WithKey(fields, token) ==
    [name |-> fields.name, is_active |-> fields.is_active,
     is_default |-> fields.is_default, api_key_encrypted |-> token]

\* Rows a model instance is saved with.
ProviderRows(names, tokens) ==
    {WithKey(f, t) : f \in ProviderFields(names), t \in tokens}

SearchRows == [is_active : BOOLEAN, is_default : BOOLEAN]

NoCall ==
    [codebase |-> "none", entry |-> "none", found |-> FALSE, kind |-> "none",
     api_key_encrypted |-> <<>>, kwargs |-> <<>>]
NoClient == [kind |-> "none", api_key |-> ""]
NoError == [type |-> "none", msg |-> <<>>]
NoOutcome ==
    [status |-> "none", stage |-> "none", value |-> <<>>, error |-> NoError]

----------------------------------------------------------------------------
(* save() *)

\* save() mutated: the previous default is left in place.
DemoteOthers_Skip(rows, pk) == rows

\* objects.filter(is_default=True).exclude(pk=self.pk).update(is_default=False)
\* exclude(pk=None) excludes no row.
DemoteOthers(rows, pk) ==
    [i \in DOMAIN rows |->
        IF rows[i].is_default /\ i # pk
        THEN [rows[i] EXCEPT !.is_default = FALSE]
        ELSE rows[i]]

\* super().save(): INSERT when pk is None, UPDATE otherwise.
WriteRow(rows, pk, row) ==
    IF pk = NoPk THEN Append(rows, row) ELSE [rows EXCEPT ![pk] = row]

\* save() mutated: the test of is_default is inverted.
ModelSave_DemoteUnlessDefault(rows, pk, row) ==
    WriteRow(IF ~row.is_default THEN DemoteOthers(rows, pk) ELSE rows, pk, row)

\* AIProvider.save / SearchEngineConfig.save (the two bodies are the same)
ModelSave(rows, pk, row) ==
    WriteRow(IF row.is_default THEN DemoteOthers(rows, pk) ELSE rows, pk, row)

\* The pk the instance has after save().
SavedPk(rows, pk) == IF pk = NoPk THEN Len(rows) + 1 ELSE pk

\* Pks an instance being saved can have: None, or a stored row's.
SavePks(rows, max) ==
    {pk \in 0..max : IF pk = NoPk THEN Len(rows) < max ELSE pk \in DOMAIN rows}

NoRes ==
    [op |-> "none", id |-> NoPk, name |-> "", outcome |-> "none",
     pk |-> NoPk, api_key |-> ""]

\* A model instance with any field values is saved (admin form, shell,
\* create_sample_data.py).
SaveProvider(pk, row) ==
    /\ pk \in SavePks(providers, MaxProviders)
    /\ providers' = ModelSave(providers, pk, row)
    /\ res' = NoRes
    /\ UNCHANGED <<searches, callVars, pipeVars, serviceVars, settingsVars>>

\* AIProviderSerializer.create: super().create() saves the validated fields
\* (api_key_encrypted is no serializer field: it starts empty), then a
\* supplied api_key is encrypted and the instance saved again.
SerializerCreate(data, api_key) ==
    /\ Len(providers) < MaxProviders
    /\ LET row   == WithKey(data, <<>>)
           first == ModelSave(providers, NoPk, row)
           pk    == SavedPk(providers, NoPk)
       IN  providers' =
             IF api_key # ""
             THEN ModelSave(first, pk, set_api_key(row, api_key))
             ELSE first
    /\ res' = NoRes
    /\ UNCHANGED <<searches, callVars, pipeVars, serviceVars, settingsVars>>

\* AIProviderSerializer.update: the fields are set on the loaded instance,
\* which keeps its stored api_key_encrypted, and saved; then as create.
SerializerUpdate(pk, data, api_key) ==
    /\ pk \in DOMAIN providers
    /\ LET row   == WithKey(data, providers[pk].api_key_encrypted)
           first == ModelSave(providers, pk, row)
       IN  providers' =
             IF api_key # ""
             THEN ModelSave(first, pk, set_api_key(row, api_key))
             ELSE first
    /\ res' = NoRes
    /\ UNCHANGED <<searches, callVars, pipeVars, serviceVars, settingsVars>>

\* SearchEngineConfig.save of an instance with any field values.
SaveSearch(pk, row) ==
    /\ pk \in SavePks(searches, MaxSearch)
    /\ searches' = ModelSave(searches, pk, row)
    /\ res' = NoRes
    /\ UNCHANGED <<providers, callVars, pipeVars, serviceVars, settingsVars>>

----------------------------------------------------------------------------
(* Provider resolution *)

\* AIClient.__init__ from line 71 on: the key is decrypted and an empty key
\* is refused.
ClientOutcome(row) ==
    IF get_api_key(row) = "" THEN "APIKeyNotConfiguredError" ELSE "client"

\* QuerySet.first() under Meta.ordering ['-is_default', '-is_active', 'name']:
\* a row no other matching row sorts before; rows that tie are in an order
\* the database chooses.
Before(a, b) ==
    \/ a.is_default /\ ~b.is_default
    \/ a.is_default = b.is_default /\ a.is_active /\ ~b.is_active
    \/ a.is_default = b.is_default /\ a.is_active = b.is_active
          /\ a.name = "Claude" /\ b.name = "GPT-4"

FirstOf(rows, matches) ==
    {i \in matches : \A j \in matches : ~Before(rows[j], rows[i])}

Resolved(op, id, name, pk) ==
    [op |-> op, id |-> id, name |-> name,
     outcome |-> ClientOutcome(providers[pk]), pk |-> pk,
     api_key |-> IF ClientOutcome(providers[pk]) = "client"
                 THEN get_api_key(providers[pk]) ELSE ""]

Unresolved(op, id, name, error) ==
    [op |-> op, id |-> id, name |-> name, outcome |-> error,
     pk |-> NoPk, api_key |-> ""]

\* AIProvider.objects.filter(is_active=True, is_default=True)
DefaultMatches(rows) ==
    {i \in DOMAIN rows : rows[i].is_active /\ rows[i].is_default}

\* AIProvider.objects.get(id=provider_id, is_active=True)
IdMatches(rows, id) ==
    {i \in DOMAIN rows : i = id /\ rows[i].is_active}

\* AIProvider.objects.get(name=provider_name, is_active=True)
NameMatches(rows, name) ==
    {i \in DOMAIN rows : rows[i].name = name /\ rows[i].is_active}

\* QuerySet.get() and the except clause of get_ai_client: no row raises
\* DoesNotExist, which is caught and turned into ProviderNotFoundError;
\* several rows raise MultipleObjectsReturned, which no clause catches.
GetOutcome(op, id, name, matches) ==
    IF matches = {} THEN {Unresolved(op, id, name, "ProviderNotFoundError")}
    ELSE IF Cardinality(matches) = 1
         THEN {Resolved(op, id, name, pk) : pk \in matches}
         ELSE {Unresolved(op, id, name, "MultipleObjectsReturned")}

\* AIClient(provider=None), get_default_ai_client()
ResolveDefault ==
    /\ res' \in
         IF DefaultMatches(providers) = {}
         THEN {Unresolved("default", NoPk, "", "ProviderNotFoundError")}
         ELSE {Resolved("default", NoPk, "", pk) :
                 pk \in FirstOf(providers, DefaultMatches(providers))}
    /\ UNCHANGED <<providers, searches, callVars, pipeVars, serviceVars, settingsVars>>

\* get_ai_client(provider_id=id)
ResolveById(id) ==
    /\ res' \in GetOutcome("by_id", id, "", IdMatches(providers, id))
    /\ UNCHANGED <<providers, searches, callVars, pipeVars, serviceVars, settingsVars>>

\* get_ai_client(provider_name=name)
ResolveByName(name) ==
    /\ res' \in GetOutcome("by_name", NoPk, name, NameMatches(providers, name))
    /\ UNCHANGED <<providers, searches, callVars, pipeVars, serviceVars, settingsVars>>

\* Ids and names asked for: stored ones and ones no row has.
AskedIds == 1..(MaxProviders + 1)
AskedNames == Names \cup {"unknown"}

----------------------------------------------------------------------------
(* Part 2: one call through the gateway.  Values *)

\* Vendor frames of one streamed response.
MaxFrames == 3

\* provider_type: the four PROVIDER_TYPES, and a value outside them (save()
\* does not validate choices).
Kinds == {"azure_openai", "openai", "anthropic", "google", "other"}

Texts == {<<>>, <<"H">>, <<"e", "l">>}
OptTexts == {<<>>} \cup {<<t>> : t \in Texts}

\* Python truth of an optional text: None and "" are false.
Truthy(opt) == opt # <<>> /\ opt[1] # <<>>

\* One frame of a streamed vendor response: whether it has choices, and the
\* text it carries (None, "", or text). A frame without choices, or with a
\* text of None, is a control or metadata frame.
Frames ==
    {[choices |-> FALSE, text |-> <<>>]}
       \cup {[choices |-> TRUE, text |-> o] : o \in OptTexts}

VendorMsgs == {"timeout", "401"}

\* Stored generation defaults of the provider of the call; temperatures are
\* in tenths.
ProviderDefaults == [max_tokens |-> 4000, temperature |-> 12]

\* Values a caller passes for the per-call parameters.
CallValues == [max_tokens |-> 500, temperature |-> 7, timeout |-> 10]
Keys == {"max_tokens", "temperature", "timeout"}
KwargsOf(S) == [k \in S |-> CallValues[k]]
Kwargs == {KwargsOf(S) : S \in SUBSET Keys}

\* timeout=kwargs.get('timeout', 50.0)
StreamTimeoutLiteral == 50
\* generate_with_image(..., max_tokens: int = 2000, temperature: float = 0.1)
ImageMaxTokensLiteral == 2000
ImageTemperatureLiteral == 1

\* The operations of the two copies of the gateway and of the services on
\* top of them.
EntryPoints ==
    {<<"corexverseAPI", "generate">>,
     <<"corexverseAPI", "generate_stream">>,
     <<"corexverseAPI", "generate_with_image">>,
     <<"corexverseAPI", "stream_ai_response">>,
     <<"musubisuite_back", "generate">>,
     <<"musubisuite_back", "generate_stream">>,
     <<"musubisuite_back", "generate_color_and_icon_stream">>}

SseEntries == {"stream_ai_response", "generate_color_and_icon_stream"}
TextEntries == {"generate", "generate_stream"} \cup SseEntries

\* kwargs each operation is called with.
EntryKwargs(entry) ==
    IF entry = "stream_ai_response" THEN {KwargsOf({})}
    ELSE IF entry = "generate_color_and_icon_stream"
         THEN {KwargsOf({"max_tokens", "temperature"})}
    ELSE IF entry = "generate_with_image"
         THEN {KwargsOf(S) : S \in SUBSET {"max_tokens", "temperature"}}
    ELSE Kwargs

Error(type, msg) == [type |-> type, msg |-> msg]

\* f"{prefix}: {type(e).__name__}: {str(e)}"
Wrap(type, prefix, e) == Error(type, <<prefix, e.type>> \o e.msg)

\* f"{prefix}: {str(e)}"
WrapMsg(type, prefix, e) == Error(type, <<prefix>> \o e.msg)

Raised(stage, e) ==
    [status |-> "raised", stage |-> stage, value |-> <<>>, error |-> e]
Returned(value) ==
    [status |-> "returned", stage |-> "call", value |-> value, error |-> NoError]
Ended(status) ==
    [status |-> status, stage |-> "call", value |-> <<>>, error |-> NoError]

Event(type, data) == [type |-> type, data |-> data]

----------------------------------------------------------------------------
(* AIClient.__init__ *)

\* AIClient.__init__: provider None and no active default row found, then
\* the key check.
InitError(found, row) ==
    IF ~found
    THEN Error("ProviderNotFoundError", <<"default provider not configured">>)
    ELSE IF ClientOutcome(row) # "client"
         THEN Error(ClientOutcome(row), <<"API key not configured">>)
         ELSE NoError

----------------------------------------------------------------------------
(* SSE framing: AIService.stream_ai_response,                               *)
(* AICodeMasterService.generate_color_and_icon_stream *)

\* The error event of the two except clauses: the message alone for the
\* configuration errors of generate_color_and_icon_stream, type and message
\* otherwise.
SseErrorData(entry, e) ==
    IF /\ entry = "generate_color_and_icon_stream"
       /\ e.type \in {"ProviderNotFoundError", "APIKeyNotConfiguredError"}
    THEN e.msg
    ELSE <<e.type>> \o e.msg

\* The except clause mutated into one that falls through to the completion
\* signal.
SseOnError_ThenDone(entry, events, e) ==
    events \o <<Event("error", SseErrorData(entry, e)), Event("done", <<>>)>>

\* except ...: yield f'data: {json.dumps({"error": error_msg})}\n\n'
SseOnError(entry, events, e) ==
    Append(events, Event("error", SseErrorData(entry, e)))

\* if chunk: yield f'data: {json.dumps({"content": chunk})}\n\n'
SseOnChunk(events, chunk) ==
    IF chunk # <<>> THEN Append(events, Event("content", chunk)) ELSE events

\* yield f'data: {json.dumps({"done": True})}\n\n'
SseOnEnd(events) == Append(events, Event("done", <<>>))

----------------------------------------------------------------------------
(* AIClient.generate_stream and the adapters *)

Get(kwargs, key, default) ==
    IF key \in DOMAIN kwargs THEN kwargs[key] ELSE default

Without(kwargs, keys) == [k \in (DOMAIN kwargs) \ keys |-> kwargs[k]]

\* kwargs.pop('max_tokens', ...) / kwargs.pop('temperature', ...) in
\* corexverseAPI; kwargs.get(...) in musubisuite_back, which leaves the keys
\* in kwargs.
RestKwargs(codebase, kwargs) ==
    IF codebase = "corexverseAPI"
    THEN Without(kwargs, {"max_tokens", "temperature"})
    ELSE kwargs

\* self._stream_x(prompt, max_tokens, temperature, **kwargs): a keyword that
\* names a positional parameter already given is a TypeError.
AdapterArgsOk(rest) ==
    "max_tokens" \notin DOMAIN rest /\ "temperature" \notin DOMAIN rest

\* The parameters each streaming adapter hands to its vendor call; the
\* Google adapter passes no timeout.
StreamVendorCall(kind, api_key, max_tokens, temperature, rest) ==
    [adapter |-> kind, api_key |-> api_key, max_tokens |-> max_tokens,
     temperature |-> temperature,
     timeout |-> IF kind = "google" THEN <<>>
                 ELSE <<Get(rest, "timeout", StreamTimeoutLiteral)>>]

\* What an adapter yields for one vendor frame (<<>>: nothing).
\*   _stream_azure_openai, _stream_openai:
\*       if chunk.choices and chunk.choices[0].delta.content: yield ...
\*   _stream_google: if chunk.text: yield chunk.text
\*   _stream_anthropic: for text in stream.text_stream: yield text
\*       (text_stream holds the text of every text delta, empty ones too)
AdapterYield(kind, f) ==
    IF kind \in {"azure_openai", "openai"}
    THEN IF f.choices /\ Truthy(f.text) THEN f.text ELSE <<>>
    ELSE IF kind = "google"
         THEN IF Truthy(f.text) THEN f.text ELSE <<>>
         ELSE f.text

\* except Exception as e: raise APICallError(f"<vendor> API error: {str(e)}")
AdapterError(kind, m) ==
    Error("APICallError", <<kind, "API error", m>>)

\* generate_stream, lines 220-225: APICallError and StreamingError pass,
\* anything else becomes a StreamingError.
StreamExcept(e) ==
    IF e.type \in {"APICallError", "StreamingError"} THEN e
    ELSE Wrap("StreamingError", "streaming error", e)

\* generate, lines 113-116
GenerateExcept(e) == Wrap("APICallError", "text generation error", e)

\* generate mutated: the response is overwritten by each chunk.
Accumulate_Overwrite(full, chunk) == chunk

\* full_response += chunk
Accumulate(full, chunk) == full \o chunk

\* The release mutated: the connection is left as it is.
ReleaseConn_Leak(c) == c

\* A generator is closed (GeneratorExit at its yield, which no
\* `except Exception` catches), returns or raises: the frame of the adapter
\* is left, the `with client.messages.stream(...)` block of the Anthropic
\* adapter exits, the stream object of the other adapters is dropped.
ReleaseConn(c) == IF c = "open" THEN "released" ELSE c

----------------------------------------------------------------------------
(* The call, step by step *)

\* The providers a call can be made on: a row of any kind with any stored
\* key, or none (the lookup of the active default found no row).
CallProviders ==
    {[found |-> TRUE, kind |-> k, api_key_encrypted |-> t] :
        k \in Kinds, t \in CipherTexts}
      \cup {[found |-> FALSE, kind |-> "none", api_key_encrypted |-> <<>>]}

\* A caller invokes one operation of one copy of the gateway.
Invoke ==
    /\ pc = "idle"
    /\ \E e \in EntryPoints, p \in CallProviders :
         \E kwargs \in EntryKwargs(e[2]) :
            call' = [codebase |-> e[1], entry |-> e[2], found |-> p.found,
                     kind |-> p.kind,
                     api_key_encrypted |-> p.api_key_encrypted,
                     kwargs |-> kwargs]
    /\ pc' = "new"
    /\ UNCHANGED <<client, vcall, conn, frames, held, yielded, received,
                   full_response, outcome, fault, storeVars, pipeVars, serviceVars, settingsVars>>

\* AIClient(provider): for the SSE services inside their try block, so that
\* a failure becomes the error event; for the gateway operations before the
\* operation itself is called.
Construct ==
    /\ pc = "new"
    /\ LET e == InitError(call.found, call)
       IN  IF e = NoError
           THEN /\ client' = [kind |-> call.kind, api_key |-> get_api_key(call)]
                /\ pc' = "ready"
                /\ UNCHANGED <<received, outcome, fault>>
           ELSE /\ pc' = "done"
                /\ client' = client
                /\ fault' = IF call.found THEN "credential" ELSE "resolution"
                /\ IF call.entry \in SseEntries
                   THEN /\ received' = SseOnError(call.entry, received, e)
                        /\ outcome' = Ended("exhausted")
                   ELSE /\ received' = received
                        /\ outcome' = Raised("construct", e)
    /\ UNCHANGED <<call, vcall, conn, frames, held, yielded, full_response,
                   storeVars, pipeVars, serviceVars, settingsVars>>

\* An error raised inside generate_stream reaches the caller of the
\* operation: through the except clause of generate_stream, then that of
\* generate or of the SSE service.
ReachCaller(e) ==
    /\ pc' = "done"
    /\ IF call.entry = "generate"
       THEN /\ outcome' = Raised("call", GenerateExcept(StreamExcept(e)))
            /\ received' = received
       ELSE IF call.entry = "generate_stream"
       THEN /\ outcome' = Raised("call", StreamExcept(e))
            /\ received' = received
       ELSE /\ outcome' = Ended("exhausted")
            /\ received' = SseOnError(call.entry, received, StreamExcept(e))

\* The first pull runs generate_stream up to the vendor call: the parameters
\* are merged, the adapter of the provider kind is called.
Start ==
    /\ pc = "ready"
    /\ call.entry \in TextEntries
    /\ LET max_tokens  == Get(call.kwargs, "max_tokens", ProviderDefaults.max_tokens)
           temperature == Get(call.kwargs, "temperature", ProviderDefaults.temperature)
           rest        == RestKwargs(call.codebase, call.kwargs)
       IN  IF client.kind = "other"
           THEN /\ ReachCaller(Error("APICallError",
                                     <<"unsupported provider type", client.kind>>))
                /\ fault' = "dispatch"
                /\ UNCHANGED <<vcall, conn>>
           ELSE IF ~AdapterArgsOk(rest)
           THEN /\ ReachCaller(Error("TypeError",
                                     <<"got multiple values for argument">>))
                /\ fault' = "arguments"
                /\ UNCHANGED <<vcall, conn>>
           ELSE /\ vcall' = <<StreamVendorCall(client.kind, client.api_key,
                                               max_tokens, temperature, rest)>>
                /\ conn' = "open"
                /\ pc' = "streaming"
                /\ UNCHANGED <<received, outcome, fault>>
    /\ UNCHANGED <<call, client, frames, held, yielded, full_response,
                   storeVars, pipeVars, serviceVars, settingsVars>>

\* The adapter reads the next frame of the vendor stream and yields its
\* text, or reads on.
VendorFrame(f) ==
    /\ pc = "streaming"
    /\ Len(frames) < MaxFrames
    /\ frames' = Append(frames, f)
    /\ IF AdapterYield(client.kind, f) # <<>>
       THEN held' = Append(held, AdapterYield(client.kind, f)[1]) /\ pc' = "yielded"
       ELSE UNCHANGED <<held, pc>>
    /\ UNCHANGED <<call, client, vcall, conn, yielded, received, full_response,
                   outcome, fault, storeVars, pipeVars, serviceVars, settingsVars>>

\* The yielded chunk passes through `yield from` to the consumer: the loop
\* of generate, the caller of generate_stream, or the loop of an SSE service
\* (which pulls again at once when it has nothing to send).
Deliver ==
    /\ pc = "yielded"
    /\ LET chunk == Head(held)
       IN  /\ held' = Tail(held)
           /\ yielded' = Append(yielded, chunk)
           /\ IF call.entry = "generate"
              THEN /\ full_response' = Accumulate(full_response, chunk)
                   /\ received' = received
                   /\ pc' = "streaming"
              ELSE IF call.entry = "generate_stream"
              THEN /\ received' = Append(received, chunk)
                   /\ full_response' = full_response
                   /\ pc' = "suspended"
              ELSE /\ received' = SseOnChunk(received, chunk)
                   /\ full_response' = full_response
                   /\ pc' = IF chunk # <<>> THEN "suspended" ELSE "streaming"
    /\ UNCHANGED <<call, client, vcall, conn, frames, outcome, fault,
                   storeVars, pipeVars, serviceVars, settingsVars>>

\* The consumer asks for the next chunk.
Pull ==
    /\ pc = "suspended"
    /\ pc' = "streaming"
    /\ UNCHANGED <<call, client, vcall, conn, frames, held, yielded, received,
                   full_response, outcome, fault, storeVars, pipeVars, serviceVars, settingsVars>>

\* The consumer stops: it drops the generator, which is closed where it is
\* suspended (at a yield, or before its first statement).
Cancel ==
    /\ pc \in {"ready", "suspended"}
    /\ call.entry \in TextEntries \ {"generate"}
    /\ conn' = ReleaseConn(conn)
    /\ outcome' = Ended("cancelled")
    /\ pc' = "done"
    /\ UNCHANGED <<call, client, vcall, frames, held, yielded, received,
                   full_response, fault, storeVars, pipeVars, serviceVars, settingsVars>>

\* The vendor stream ends: the adapter and generate_stream return.
VendorEnd ==
    /\ pc = "streaming"
    /\ conn' = ReleaseConn(conn)
    /\ pc' = "done"
    /\ IF call.entry = "generate"
       THEN outcome' = Returned(<<full_response>>) /\ received' = received
       ELSE IF call.entry = "generate_stream"
       THEN outcome' = Ended("exhausted") /\ received' = received
       ELSE outcome' = Ended("exhausted") /\ received' = SseOnEnd(received)
    /\ UNCHANGED <<call, client, vcall, frames, held, yielded, full_response,
                   fault, storeVars, pipeVars, serviceVars, settingsVars>>

\* The vendor call or the read of a frame raises (timeout, non-2xx, auth
\* rejection, malformed frame): the adapter raises APICallError.
VendorError(m) ==
    /\ pc = "streaming"
    /\ conn' = ReleaseConn(conn)
    /\ ReachCaller(AdapterError(client.kind, m))
    /\ fault' = "vendor"
    /\ UNCHANGED <<call, client, vcall, frames, held, yielded, full_response,
                   storeVars, pipeVars, serviceVars, settingsVars>>

----------------------------------------------------------------------------
(* AIClient.generate_with_image and the image adapters (corexverseAPI) *)

\* A vendor response to an image call. Google: response.text (which may
\* raise), the candidates (none or one), whether the first candidate has
\* content parts, the text of its first part, its finish_reason. OpenAI and
\* Anthropic: the choices / content blocks (none or one) and the text of the
\* first.
ImageResponses ==
    [text_raises : BOOLEAN, text : OptTexts, candidates : 0..1,
     has_parts : BOOLEAN, part_text : OptTexts,
     finish_reason : {"STOP", "MAX_TOKENS"}]

\* response.text, read inside its own try block
PrimaryText(r) == IF r.text_raises THEN <<>> ELSE r.text

\* The fallback mutated: the candidates are not looked at.
FallbackTaken_Never(r) == FALSE

\* The fallback is entered: no primary text, a candidate, content parts.
FallbackTaken(r) ==
    ~Truthy(PrimaryText(r)) /\ r.candidates > 0 /\ r.has_parts

\* _generate_with_image_google from line 420 on: <<result>> or an error;
\* every error is re-raised by the except clause of the adapter.
GoogleImageResult(r) ==
    LET result_text == IF FallbackTaken(r) THEN r.part_text ELSE PrimaryText(r)
        raised ==
          IF FallbackTaken(r) /\ r.part_text = <<>>
          THEN Error("TypeError", <<"object of type 'NoneType' has no len()">>)
          ELSE IF Truthy(result_text) THEN NoError
          ELSE IF r.candidates > 0 /\ r.finish_reason = "MAX_TOKENS"
               THEN Error("APICallError", <<"token limit reached">>)
          ELSE IF r.text_raises
               \* line 457 reads response.text again, outside a try block
               THEN Error("ValueError", <<"response.text">>)
               ELSE Error("APICallError", <<"no valid text returned">>)
    IN  IF raised = NoError
        THEN [value |-> result_text, error |-> NoError]
        ELSE [value |-> <<>>,
              error |-> WrapMsg("APICallError", "Google Gemini image error", raised)]

\* return response.choices[0].message.content / message.content[0].text
FirstItemResult(kind, r) ==
    IF r.candidates = 0
    THEN [value |-> <<>>,
          error |-> WrapMsg("APICallError", kind,
                            Error("IndexError", <<"list index out of range">>))]
    ELSE [value |-> r.part_text, error |-> NoError]

ImageResult(kind, r) ==
    IF kind = "google" THEN GoogleImageResult(r) ELSE FirstItemResult(kind, r)

\* generate_with_image, lines 165-168
ImageExcept(e) == Wrap("APICallError", "image generation error", e)

\* The image adapter generate_with_image calls for a provider kind.
ImageAdapter(kind) ==
    IF kind = "google" THEN "_generate_with_image_google"
    ELSE IF kind \in {"azure_openai", "openai"} THEN "_generate_with_image_openai"
    ELSE IF kind = "anthropic" THEN "_generate_with_image_anthropic"
    ELSE "none"

\* What the dispatch of generate_with_image raises before any vendor call:
\* no branch for the kind; for azure_openai the adapter reads
\* self.provider.endpoint_url, an attribute AIProvider does not have.
ImageDispatchError(kind) ==
    IF kind = "other"
    THEN Error("APICallError", <<"provider does not support image input", kind>>)
    ELSE IF kind = "azure_openai"
    THEN WrapMsg("APICallError", "OpenAI Vision image error",
                 Error("AttributeError", <<"endpoint_url">>))
    ELSE NoError

\* generate_with_image up to the vendor call.
ImageStart ==
    /\ pc = "ready"
    /\ call.entry = "generate_with_image"
    /\ LET max_tokens  == Get(call.kwargs, "max_tokens", ImageMaxTokensLiteral)
           temperature == Get(call.kwargs, "temperature", ImageTemperatureLiteral)
       IN  IF ImageDispatchError(client.kind) # NoError
           THEN /\ pc' = "done"
                /\ outcome' = Raised("call", ImageExcept(ImageDispatchError(client.kind)))
                /\ fault' = IF ImageAdapter(client.kind) = "none"
                            THEN "dispatch" ELSE "adapter"
                /\ UNCHANGED <<vcall, conn>>
           ELSE /\ vcall' = <<[adapter |-> ImageAdapter(client.kind),
                               api_key |-> client.api_key,
                               max_tokens |-> max_tokens,
                               temperature |-> temperature, timeout |-> <<>>]>>
                /\ conn' = "open"
                /\ pc' = "awaiting"
                /\ UNCHANGED <<outcome, fault>>
    /\ UNCHANGED <<call, client, frames, held, yielded, received, full_response,
                   storeVars, pipeVars, serviceVars, settingsVars>>

\* The vendor answers the image call.
ImageResponse ==
    /\ pc = "awaiting"
    /\ conn' = ReleaseConn(conn)
    /\ pc' = "done"
    /\ \E r \in ImageResponses :
         /\ frames' = <<r>>
         /\ IF ImageResult(client.kind, r).error = NoError
            THEN /\ outcome' = Returned(ImageResult(client.kind, r).value)
                 /\ fault' = "none"
            ELSE /\ outcome' = Raised("call", ImageExcept(ImageResult(client.kind, r).error))
                 /\ fault' = "response"
    /\ UNCHANGED <<call, client, vcall, held, yielded, received,
                   full_response, storeVars, pipeVars, serviceVars, settingsVars>>

\* The image call raises in the vendor SDK.
ImageVendorError(m) ==
    /\ pc = "awaiting"
    /\ conn' = ReleaseConn(conn)
    /\ pc' = "done"
    /\ outcome' = Raised("call", ImageExcept(AdapterError(client.kind, m)))
    /\ fault' = "vendor"
    /\ UNCHANGED <<call, client, vcall, frames, held, yielded, received,
                   full_response, storeVars, pipeVars, serviceVars, settingsVars>>

----------------------------------------------------------------------------
(* Part 3: the extraction pipeline (ai_services/ocr_processor.py).  Values *)

\* Tokens of a raw model response.
MaxTokens == 3
\* Fields of an extraction result.
MaxFields == 2

SeqsUpTo(S, n) == UNION {[1..k -> S] : k \in 0..n}

\* A raw response is a sequence of tokens: the two fence markers (<fence>
\* stands for three backquotes), a newline, prose, the text of a JSON object,
\* the JSON text null.  CutText is what is
\* left of a token other than a newline when its last character is cut off.
FenceJson == "<fence>json"
Fence == "<fence>"
Newline == "NL"
Prose == "text"
ObjectText == "{...}"
NullText == "null"
CutText == "cut"
Tokens == {FenceJson, Fence, Newline, Prose, ObjectText, NullText}

\* JSON scalars that stand where a number is expected: a number (confidences
\* in thousandths, coordinates in pixels) or a string.
JNum(n) == [kind |-> "number", n |-> n]
JText == [kind |-> "string", n |-> 0]

\* A Python dict is a record of its keys and of the value of each key (a
\* filler for the keys it lacks); a value that may be null is a sequence of
\* length 0 (null) or 1.
FieldKeys == {"id", "label", "value", "confidence", "boundingBox"}
BoxKeys == {"x", "y", "width", "height"}

\* boundingBox dicts: a function from the keys present to their values.
BoxOf(keys, v) == [k \in keys |-> v]
FullBox == BoxOf(BoxKeys, JNum(10))

\* A field as the model emits it at best.
FullField ==
    [keys |-> FieldKeys, id |-> "a", confidence |-> JNum(750),
     boundingBox |-> <<FullBox>>]

\* f"field-{i}"
FieldId(i) == "field-" \o ToString(i)

\* del field[key]
DropKey(f, key) ==
    [keys |-> f.keys \ {key},
     id |-> IF key = "id" THEN "" ELSE f.id,
     confidence |-> IF key = "confidence" THEN JNum(0) ELSE f.confidence,
     boundingBox |-> IF key = "boundingBox" THEN <<>> ELSE f.boundingBox]

RECURSIVE DropKeys(_, _)
DropKeys(f, keys) ==
    IF keys = {} THEN f
    ELSE LET k == CHOOSE k \in keys : TRUE
         IN  DropKeys(DropKey(f, k), keys \ {k})

\* Fields a model response holds: the full field; the field without one of
\* its keys, and without any; other confidences (multiples of 0.25, which
\* floats hold exactly, and a string); a boundingBox without height, and a
\* null one.
OcrFields ==
    {FullField, DropKeys(FullField, FieldKeys)}
      \cup {DropKey(FullField, k) : k \in FieldKeys}
      \cup {[FullField EXCEPT !.confidence = c] : c \in {JNum(500), JNum(1000), JText}}
      \cup {[FullField EXCEPT !.id = FieldId(2)]}
      \cup {[FullField EXCEPT !.boundingBox = <<BoxOf(BoxKeys \ {"height"}, JNum(10))>>],
            [FullField EXCEPT !.boundingBox = <<>>]}

\* A parsed JSON document: null, or an object with or without fields (null
\* or a list) and with or without overallConfidence.
NullDoc ==
    [top |-> "null", keys |-> {}, fields |-> <<>>, overallConfidence |-> JNum(0)]
ObjectDoc(keys, fields, overall) ==
    [top |-> "object", keys |-> keys,
     fields |-> IF "fields" \in keys THEN fields ELSE <<>>,
     overallConfidence |->
        IF "overallConfidence" \in keys THEN overall ELSE JNum(0)]

DocsOf(fieldSet, n) ==
    {ObjectDoc(keys, fields, JNum(900)) :
        keys \in SUBSET {"fields", "overallConfidence"},
        fields \in {<<>>} \cup {<<l>> : l \in SeqsUpTo(fieldSet, n)}}

----------------------------------------------------------------------------
(* process_ocr, step by step *)

valid_types == {"invoice", "receipt", "contract", "form", "other"}

\* process_ocr, lines 75-82
ParamError(req) ==
    IF req.image_base64 = ""
    THEN Error("ValueError", <<"image_base64 is required">>)
    ELSE IF req.document_type \notin valid_types
    THEN Error("ValueError", <<"document_type must be one of", "valid_types">>)
    ELSE NoError

Range(text) == {text[i] : i \in DOMAIN text}

\* str.find(marker, start): the first token from `start` on that holds the
\* marker; 0 stands for Python's -1.
Find(text, markers, start) ==
    IF \E i \in start..Len(text) : text[i] \in markers
    THEN CHOOSE i \in start..Len(text) :
            /\ text[i] \in markers
            /\ \A j \in start..(i - 1) : text[j] \notin markers
    ELSE 0

\* text[start:end] for the text after token start - 1 and before token end;
\* with end = -1 the slice runs to the last character but one.
Slice(text, start, end) ==
    IF end # 0 THEN SubSeq(text, start, end - 1)
    ELSE IF start > Len(text) THEN <<>>
    ELSE IF text[Len(text)] = Newline THEN SubSeq(text, start, Len(text) - 1)
    ELSE Append(SubSeq(text, start, Len(text) - 1), CutText)

\* str.strip()
RECURSIVE Strip(_)
Strip(text) ==
    IF text = <<>> THEN text
    ELSE IF Head(text) = Newline THEN Strip(Tail(text))
    ELSE IF text[Len(text)] = Newline THEN Strip(SubSeq(text, 1, Len(text) - 1))
    ELSE text

\* process_ocr, lines 116-125: the text handed to json.loads. The marker of
\* three backquotes is found in both fence tokens.
JsonStr(text) ==
    IF FenceJson \in Range(text)
    THEN LET json_start == Find(text, {FenceJson}, 1) + 1
         IN  Strip(Slice(text, json_start,
                         Find(text, {Fence, FenceJson}, json_start)))
    ELSE IF Fence \in Range(text)
    THEN LET json_start == Find(text, {Fence}, 1) + 1
         IN  Strip(Slice(text, json_start, Find(text, {Fence}, json_start)))
    ELSE Strip(text)

\* json.loads: the text of one JSON document parses to it (doc is the object
\* the object text spells); anything else raises JSONDecodeError, whose
\* message names what the decoder expected and where.
json_loads(text, doc) ==
    IF text = <<ObjectText>> THEN [value |-> doc, error |-> NoError]
    ELSE IF text = <<NullText>> THEN [value |-> NullDoc, error |-> NoError]
    ELSE [value |-> NullDoc,
          error |-> Error("JSONDecodeError", <<"Expecting value", "char 0">>)]

\* process_ocr, lines 140-141
RepairField(f, i) ==
    IF "id" \in f.keys THEN f
    ELSE [f EXCEPT !.keys = @ \cup {"id"}, !.id = FieldId(i)]

\* process_ocr, lines 152-156: the test bbox_field not in bbox, with bbox None
BoxError(f) ==
    "boundingBox" \in f.keys /\ f.boundingBox = <<>>

\* f.get("confidence", 0)
ConfidenceOrZero(f) ==
    IF "confidence" \in f.keys THEN f.confidence ELSE JNum(0)

RECURSIVE SumConfidence(_)
SumConfidence(fields) ==
    IF fields = <<>> THEN 0
    ELSE ConfidenceOrZero(Head(fields)).n + SumConfidence(Tail(fields))

\* round(sum / n, 2) in thousandths: to the nearest hundredth, a tie to the
\* even one (the values here are held exactly by floats).
RoundedMean(sum, n) ==
    LET q == sum \div (10 * n)
        r == sum % (10 * n)
    IN  IF 2 * r < 10 * n THEN 10 * q
        ELSE IF 2 * r > 10 * n THEN 10 * (q + 1)
        ELSE IF q % 2 = 0 THEN 10 * q ELSE 10 * (q + 1)

\* process_ocr, lines 163-170
OverallConfidence(fields) ==
    IF fields = <<>> THEN JNum(0)
    ELSE JNum(RoundedMean(SumConfidence(fields), Len(fields)))

\* process_ocr, lines 135-177, on the parsed document.
OcrResult(doc) ==
    IF doc.top # "object"
    THEN [value |-> doc,
          error |-> Error("TypeError", <<"argument of type 'NoneType' is not iterable">>)]
    ELSE IF "fields" \notin doc.keys
    THEN [value |-> doc,
          error |-> Error("APICallError", <<"the response has no 'fields'">>)]
    ELSE IF doc.fields = <<>>
    THEN [value |-> doc,
          error |-> Error("TypeError", <<"'NoneType' object is not iterable">>)]
    ELSE LET fields   == doc.fields[1]
             repaired == [i \in DOMAIN fields |-> RepairField(fields[i], i)]
         IN  IF \E i \in DOMAIN fields : BoxError(fields[i])
             THEN [value |-> doc,
                   error |-> Error("TypeError", <<"argument of type 'NoneType' is not iterable">>)]
             ELSE IF "overallConfidence" \in doc.keys
             THEN [value |-> [doc EXCEPT !.fields = <<repaired>>],
                   error |-> NoError]
             ELSE IF \E i \in DOMAIN fields :
                        ConfidenceOrZero(fields[i]).kind # "number"
             THEN [value |-> doc,
                   error |-> Error("TypeError", <<"unsupported operand type(s) for +">>)]
             ELSE [value |-> [doc EXCEPT !.fields = <<repaired>>,
                                         !.keys = @ \cup {"overallConfidence"},
                                         !.overallConfidence =
                                             OverallConfidence(repaired)],
                   error |-> NoError]

\* process_ocr, lines 129-132
ParseExcept(e) ==
    Error("APICallError", <<"cannot parse the response as JSON">> \o e.msg)

\* The except clauses mutated: only APICallError passes unwrapped.
OcrExcept_WrapAll(e) ==
    IF e.type = "APICallError" THEN e
    ELSE Wrap("APICallError", "OCR processing error", e)

\* process_ocr, lines 179-184
OcrExcept(e) ==
    IF e.type \in {"APICallError", "ValueError"} THEN e
    ELSE Wrap("APICallError", "OCR processing error", e)

\* validate_ocr_result, lines 197-236: any exception is caught and gives
\* False (a result that is not an object, a null boundingBox).
FieldValid(f) ==
    /\ ConfidenceOrZero(f).kind = "number"
    /\ ConfidenceOrZero(f).n >= 0
    /\ ConfidenceOrZero(f).n <= 1000
    /\ "boundingBox" \in f.keys =>
          /\ f.boundingBox # <<>>
          /\ \A key \in BoxKeys :
                /\ key \in DOMAIN f.boundingBox[1]
                /\ f.boundingBox[1][key].kind = "number"
                /\ f.boundingBox[1][key].n >= 0

validate_ocr_result(result) ==
    /\ result.top = "object"
    /\ "fields" \in result.keys
    /\ result.fields # <<>>
    /\ Len(result.fields[1]) # 0
    /\ \A i \in DOMAIN result.fields[1] : FieldValid(result.fields[1][i])

----------------------------------------------------------------------------
(* The pipeline as a state machine: process_ocr called directly or through *)
(* the view process_document_ocr (services/ocr_views.py).                  *)

\* Images of a request: empty, base64 text, text b64decode rejects, and
\* data URLs (with a body, without one, without the comma).
Images == {"", "img", "bad64", "data:,img", "data:,", "data:img"}
DocumentTypes == {"invoice", "other", "memo"}
OcrRequests(callers) ==
    [caller : callers, image_base64 : Images, document_type : DocumentTypes,
     provider_id : 0..1]

NoRequest ==
    [caller |-> "none", image_base64 |-> "", document_type |-> "",
     provider_id |-> 0]
NoResponse == [none |-> TRUE, text |-> <<>>, doc |-> NullDoc]
NoOcrOutcome ==
    [status |-> "none", value |-> NullDoc, error |-> NoError, http |-> 0]
NoValidation == [called |-> FALSE, result |-> NullDoc, verdict |-> FALSE]

\* ocr_views.py, lines 154-155: image_base64.split(',', 1)[1]; an empty
\* sequence stands for the IndexError of a data URL without a comma.
AfterPrefix(image) ==
    IF image \notin {"data:,img", "data:,", "data:img"} THEN <<image>>
    ELSE IF image = "data:,img" THEN <<"img">>
    ELSE IF image = "data:," THEN <<"">>
    ELSE <<>>

\* ocr_views.py, lines 158-167
b64decode(image) ==
    IF image = "bad64" THEN Error("binascii.Error", <<"Incorrect padding">>)
    ELSE NoError

\* ocr_views.py, lines 184-236: the status of the response.
ViewStatus(status, value, error) ==
    IF status = "returned"
    THEN IF validate_ocr_result(value) THEN 200 ELSE 500
    ELSE IF error.type = "APICallError" THEN 500
    ELSE IF error.type = "ValueError" THEN 400
    ELSE 500

\* The end of process_ocr, and of the view when it is the caller.
OcrDone(status, value, error) ==
    /\ ocr_pc' = "done"
    /\ ocr_outcome' =
          [status |-> status, value |-> value, error |-> error,
           http |-> IF ocr_req.caller = "view"
                    THEN ViewStatus(status, value, error) ELSE 0]

OcrRaise(e) == OcrDone("raised", NullDoc, OcrExcept(e))

\* A call of process_ocr, or a request to the view.
OcrInvoke(req) ==
    /\ ocr_pc = "idle"
    /\ ocr_req' = req
    /\ ocr_pc' = IF req.caller = "view" THEN "view" ELSE "entered"
    /\ UNCHANGED <<ocr_steps, ocr_response, ocr_outcome, val_call, enr_call,
                   storeVars, callVars, serviceVars, settingsVars>>

\* ocr_views.py, lines 144-167: the view answers by itself, or calls
\* process_ocr with the image without its prefix.
ViewPrecheck ==
    /\ ocr_pc = "view"
    /\ IF ocr_req.image_base64 = ""
       THEN /\ ocr_pc' = "done"
            /\ ocr_outcome' = [NoOcrOutcome EXCEPT !.status = "rejected", !.http = 400]
            /\ UNCHANGED ocr_req
       ELSE IF AfterPrefix(ocr_req.image_base64) = <<>>
       THEN /\ ocr_pc' = "done"
            /\ ocr_outcome' = [NoOcrOutcome EXCEPT !.status = "rejected", !.http = 500]
            /\ UNCHANGED ocr_req
       ELSE IF b64decode(AfterPrefix(ocr_req.image_base64)[1]) # NoError
       THEN /\ ocr_pc' = "done"
            /\ ocr_outcome' = [NoOcrOutcome EXCEPT !.status = "rejected", !.http = 400]
            /\ UNCHANGED ocr_req
       ELSE /\ ocr_pc' = "entered"
            /\ ocr_req' = [ocr_req EXCEPT
                              !.image_base64 = AfterPrefix(ocr_req.image_base64)[1]]
            /\ UNCHANGED ocr_outcome
    /\ UNCHANGED <<ocr_steps, ocr_response, val_call, enr_call, storeVars,
                   callVars, serviceVars, settingsVars>>

\* process_ocr, lines 73-84
OcrCheckParams ==
    /\ ocr_pc = "entered"
    /\ IF ParamError(ocr_req) # NoError
       THEN OcrRaise(ParamError(ocr_req))
       ELSE ocr_pc' = "checked" /\ UNCHANGED ocr_outcome
    /\ UNCHANGED <<ocr_req, ocr_steps, ocr_response, val_call, enr_call,
                   storeVars, callVars, serviceVars, settingsVars>>

\* What get_ai_client(provider_id) and get_default_ai_client() end with.
ResolveEnds == {"client", "ProviderNotFoundError", "APIKeyNotConfiguredError"}

\* process_ocr, lines 86-91
OcrResolve(end) ==
    /\ ocr_pc = "checked"
    /\ ocr_steps' =
          Append(ocr_steps, IF ocr_req.provider_id # 0 THEN "get_ai_client"
                            ELSE "get_default_ai_client")
    /\ IF end = "client"
       THEN ocr_pc' = "resolved" /\ UNCHANGED ocr_outcome
       ELSE OcrRaise(Error(end, <<"provider">>))
    /\ UNCHANGED <<ocr_req, ocr_response, val_call, enr_call, storeVars,
                   callVars, serviceVars, settingsVars>>

\* process_ocr, lines 93-106: generate_with_image returns a text or None,
\* or raises APICallError.
OcrGenerate(response, e) ==
    /\ ocr_pc = "resolved"
    /\ ocr_steps' = Append(ocr_steps, "generate_with_image")
    /\ IF e # NoError
       THEN OcrRaise(e) /\ UNCHANGED ocr_response
       ELSE /\ ocr_pc' = "generated"
            /\ ocr_response' = response
            /\ UNCHANGED ocr_outcome
    /\ UNCHANGED <<ocr_req, val_call, enr_call, storeVars, callVars, serviceVars, settingsVars>>

\* process_ocr, lines 108-184
OcrParse ==
    /\ ocr_pc = "generated"
    /\ IF ocr_response.none
       THEN OcrRaise(Error("APICallError", <<"the response is null">>))
       ELSE LET parsed == json_loads(JsonStr(ocr_response.text), ocr_response.doc)
            IN  IF parsed.error # NoError
                THEN OcrRaise(ParseExcept(parsed.error))
                ELSE IF OcrResult(parsed.value).error # NoError
                THEN OcrRaise(OcrResult(parsed.value).error)
                ELSE OcrDone("returned", OcrResult(parsed.value).value, NoError)
    /\ UNCHANGED <<ocr_req, ocr_steps, ocr_response, val_call, enr_call,
                   storeVars, callVars, serviceVars, settingsVars>>

\* validate_ocr_result called on a result.
Validate(result) ==
    /\ ~val_call.called
    /\ val_call' = [called |-> TRUE, result |-> result,
                    verdict |-> validate_ocr_result(result)]
    /\ UNCHANGED <<ocr_req, ocr_pc, ocr_steps, ocr_response, ocr_outcome,
                   enr_call, storeVars, callVars, serviceVars, settingsVars>>

----------------------------------------------------------------------------
(* Part 4: enrichment of client data (ai_services/client_enrichment.py)    *)

\* Tokens of a capital given as a string.
MaxCapitalTokens == 3

\* Values of a key of the parsed data: null, a number, NaN (json.loads
\* reads the literal NaN), a list, or a string, which is a sequence of
\* tokens: digits, a comma, a word, the words nan and null.
CapitalTokens == {"5", "00", ",", "abc", "nan", "null"}
DigitTokens == {"5", "00"}
DigitValue(tok) == IF tok = "5" THEN 5 ELSE 0
DigitLen(tok) == IF tok = "5" THEN 1 ELSE 2

CNull == [kind |-> "null", n |-> 0, s |-> <<>>]
CNum(n) == [kind |-> "number", n |-> n, s |-> <<>>]
CNaN == [kind |-> "nan", n |-> 0, s |-> <<>>]
CList == [kind |-> "list", n |-> 0, s |-> <<>>]
CStr(s) == [kind |-> "string", n |-> 0, s |-> s]

\* The number a sequence of digit tokens spells.
RECURSIVE Decimal(_)
Decimal(s) ==
    IF s = <<>> THEN 0
    ELSE Decimal(SubSeq(s, 1, Len(s) - 1)) * (10 ^ DigitLen(s[Len(s)]))
           + DigitValue(s[Len(s)])

\* value.replace(',', '')
RemoveCommas(s) == SelectSeq(s, LAMBDA tok : tok # ",")

\* value in ('', None, 'null', 'NULL', 'None')
Blank(value) ==
    \/ value.kind = "null"
    \/ value.kind = "string" /\ value.s \in {<<>>, <<"null">>}

\* float(text): digits give their number, nan gives NaN, anything else
\* raises ValueError.
FloatOfText(s) ==
    IF s # <<>> /\ \A i \in DOMAIN s : s[i] \in DigitTokens
    THEN [kind |-> "number", n |-> Decimal(s)]
    ELSE IF s = <<"nan">> THEN [kind |-> "nan", n |-> 0]
    ELSE [kind |-> "ValueError", n |-> 0]

\* _normalize_capital, lines 324-333
CapitalFloat(value) ==
    IF value.kind = "string" THEN FloatOfText(RemoveCommas(value.s))
    ELSE IF value.kind \in {"number", "nan"} THEN [kind |-> value.kind, n |-> value.n]
    ELSE [kind |-> "TypeError", n |-> 0]

\* _normalize_capital, lines 306-350: the result is None (an empty sequence)
\* or an integer; comparisons with NaN are false, and int(NaN) raises.
_normalize_capital(value) ==
    IF Blank(value) THEN [result |-> <<>>, error |-> NoError]
    ELSE LET capital == CapitalFloat(value)
         IN  IF capital.kind \in {"ValueError", "TypeError"}
             THEN [result |-> <<>>, error |-> NoError]
             ELSE IF capital.kind = "nan"
             THEN [result |-> <<>>,
                   error |-> Error("ValueError", <<"cannot convert float NaN to integer">>)]
             ELSE IF capital.n < 10000
             THEN [result |-> <<capital.n * 10000>>, error |-> NoError]
             ELSE IF 10000 <= capital.n /\ capital.n < 100000
             THEN [result |-> <<capital.n * 10000>>, error |-> NoError]
             ELSE [result |-> <<capital.n>>, error |-> NoError]

\* _clean_data, lines 296-300: int(value.replace(',', '')) of a string
EmployeeCount(value) ==
    IF value.kind # "string" THEN value
    ELSE IF FloatOfText(RemoveCommas(value.s)).kind = "number"
    THEN CNum(FloatOfText(RemoveCommas(value.s)).n)
    ELSE CNull

\* The parsed data: an object with or without capital and employee_count.
NoData ==
    [top |-> "null", keys |-> {}, capital |-> CNull, employee_count |-> CNull]
DataOf(keys, capital, employee_count) ==
    [top |-> "object", keys |-> keys,
     capital |-> IF "capital" \in keys THEN capital ELSE CNull,
     employee_count |-> IF "employee_count" \in keys THEN employee_count ELSE CNull]

\* _clean_data, lines 284-304
_clean_data(data) ==
    IF data.top # "object"
    THEN [value |-> NoData,
          error |-> Error("AttributeError", <<"'NoneType' object has no attribute 'items'">>)]
    ELSE IF "capital" \in data.keys /\ ~Blank(data.capital)
              /\ _normalize_capital(data.capital).error # NoError
    THEN [value |-> NoData, error |-> _normalize_capital(data.capital).error]
    ELSE [value |->
            [data EXCEPT
               !.capital =
                  IF "capital" \notin data.keys \/ Blank(@) THEN CNull
                  ELSE IF _normalize_capital(@).result = <<>> THEN CNull
                  ELSE CNum(_normalize_capital(@).result[1]),
               !.employee_count =
                  IF "employee_count" \notin data.keys \/ Blank(@) THEN CNull
                  ELSE EmployeeCount(@)],
          error |-> NoError]

\* The number of newlines that follow token i.
NewlinesAfter(text, i) ==
    CHOOSE n \in 0..(Len(text) - i) :
        /\ \A j \in 1..n : text[i + j] = Newline
        /\ i + n + 1 <= Len(text) => text[i + n + 1] # Newline

\* The first newline at or after token p that a fence follows; 0 if none.
Closing(text, p) ==
    LET ends == {q \in p..(Len(text) - 1) :
                    text[q] = Newline /\ text[q + 1] \in {Fence, FenceJson}}
    IN  IF ends = {} THEN 0
        ELSE CHOOSE q \in ends : \A r \in ends : q <= r

\* re.search of the fenced pattern (the json fence, whitespace that ends
\* with a newline, the shortest content, a newline and a fence), line 267:
\* the leftmost json fence that matches, with the longest whitespace that
\* lets the rest match. The result is group(1) in a sequence, empty when
\* nothing matches.
FencedGroup(text) ==
    LET opens(i) == {k \in 0..(NewlinesAfter(text, i) - 1) :
                        Closing(text, i + k + 2) # 0}
        starts == {i \in DOMAIN text : text[i] = FenceJson /\ opens(i) # {}}
    IN  IF starts = {} THEN <<>>
        ELSE LET i == CHOOSE i \in starts : \A j \in starts : i <= j
                 k == CHOOSE k \in opens(i) : \A l \in opens(i) : l <= k
             IN  <<SubSeq(text, i + k + 2, Closing(text, i + k + 2) - 1)>>

\* re.search of a brace, anything, a brace, line 272: from the first brace
\* of the text to its last one.
BraceGroup(text) ==
    LET braces == {i \in DOMAIN text : text[i] = ObjectText}
    IN  IF braces = {} THEN <<>>
        ELSE <<SubSeq(text,
                      CHOOSE i \in braces : \A j \in braces : i <= j,
                      CHOOSE i \in braces : \A j \in braces : j <= i)>>

\* _parse_json_response, lines 262-282
_parse_json_response(response_text, doc) ==
    LET json_str == IF FencedGroup(response_text) # <<>>
                    THEN FencedGroup(response_text)[1]
                    ELSE IF BraceGroup(response_text) # <<>>
                    THEN BraceGroup(response_text)[1]
                    ELSE response_text
        data == json_loads(Strip(json_str), doc)
    IN  IF data.error # NoError THEN [value |-> NoData, error |-> data.error]
        ELSE _clean_data(data.value)

NoEnrichment ==
    [op |-> "none", capital |-> CNull, text |-> <<>>, doc |-> NoData,
     result |-> <<>>, data |-> NoData, error |-> NoError]

\* A call of _normalize_capital.
NormalizeCapital(value) ==
    /\ enr_call.op = "none"
    /\ enr_call' = [NoEnrichment EXCEPT
                      !.op = "_normalize_capital",
                      !.capital = value,
                      !.result = _normalize_capital(value).result,
                      !.error = _normalize_capital(value).error]
    /\ UNCHANGED <<ocr_req, ocr_pc, ocr_steps, ocr_response, ocr_outcome,
                   val_call, storeVars, callVars, serviceVars, settingsVars>>

\* A call of _parse_json_response on a text whose object text spells doc.
ParseJsonResponse(text, doc) ==
    /\ enr_call.op = "none"
    /\ enr_call' = [NoEnrichment EXCEPT
                      !.op = "_parse_json_response",
                      !.text = text,
                      !.doc = doc,
                      !.data = _parse_json_response(text, doc).value,
                      !.error = _parse_json_response(text, doc).error]
    /\ UNCHANGED <<ocr_req, ocr_pc, ocr_steps, ocr_response, ocr_outcome,
                   val_call, storeVars, callVars, serviceVars, settingsVars>>

\* _calculate_confidence_score, lines 355-371: the weight of each field.
important_fields ==
    [company_name |-> 10, legal_name |-> 8, representative |-> 7,
     established_date |-> 6, capital |-> 5, employee_count |-> 5,
     industry |-> 6, website |-> 7, description |-> 5, postal_code |-> 4,
     prefecture |-> 4, city |-> 4, address |-> 3, phone |-> 5, fax |-> 2]

\* The fields of the table, in its order.
field_order ==
    <<"company_name", "legal_name", "representative", "established_date",
      "capital", "employee_count", "industry", "website", "description",
      "postal_code", "prefecture", "city", "address", "phone", "fax">>

\* The sum of the weights of the fields of a set, from field i of the table
\* on.
RECURSIVE SumWeights(_, _)
SumWeights(fields, i) ==
    IF i > Len(field_order) THEN 0
    ELSE (IF field_order[i] \in fields THEN important_fields[field_order[i]]
          ELSE 0) + SumWeights(fields, i + 1)

\* line 373: sum(important_fields.values())
total_weight == SumWeights(DOMAIN important_fields, 1)

\* Python truth of a value: None, "", 0 and the empty list are false, NaN
\* is true.
ValueTruthy(value) ==
    IF value.kind = "string" THEN value.s # <<>>
    ELSE IF value.kind = "number" THEN value.n # 0
    ELSE value.kind = "nan"

\* line 378: value and value not in ('', None, 'null', 'NULL', 'None');
\* data.get(field) of a missing key is None.
Achieved(data) ==
    {f \in DOMAIN important_fields : ValueTruthy(data[f]) /\ ~Blank(data[f])}

\* The score mutated: the percentage is rounded up.
_calculate_confidence_score_Up(data) ==
    (SumWeights(Achieved(data), 1) * 100 + total_weight - 1) \div total_weight

\* _calculate_confidence_score, lines 352-384: int((achieved / total) * 100).
\* The quotient is a float; for the total of the table and every achieved
\* weight from 0 to the total the truncation of the float product is the
\* integer quotient of 100 * achieved by the total.
_calculate_confidence_score(data) ==
    (SumWeights(Achieved(data), 1) * 100) \div total_weight

\* A call of _calculate_confidence_score.
CalculateConfidenceScore(data) ==
    /\ enr_call.op = "none"
    /\ enr_call' = [NoEnrichment EXCEPT
                      !.op = "_calculate_confidence_score",
                      !.data = data,
                      !.result = <<_calculate_confidence_score(data)>>]
    /\ UNCHANGED <<ocr_req, ocr_pc, ocr_steps, ocr_response, ocr_outcome,
                   val_call, storeVars, callVars, serviceVars, settingsVars>>

\* _calculate_changes, lines 391-396
compare_fields ==
    <<"legal_name", "representative", "established_date", "capital",
      "employee_count", "industry", "website", "description", "postal_code",
      "prefecture", "city", "address", "phone", "fax">>

\* len(value) of a string: the characters of its tokens.
RECURSIVE TextLen(_)
TextLen(s) ==
    IF s = <<>> THEN 0
    ELSE (IF Head(s) \in {"5", ","} THEN 1
          ELSE IF Head(s) = "00" THEN 2
          ELSE IF Head(s) = "null" THEN 4 ELSE 3) + TextLen(Tail(s))

\* _calculate_field_confidence, lines 413-434
_calculate_field_confidence(value) ==
    IF ~ValueTruthy(value) THEN 0
    ELSE IF value.kind = "string"
    THEN IF TextLen(value.s) > 50 THEN 95
         ELSE IF TextLen(value.s) > 20 THEN 85
         ELSE IF TextLen(value.s) > 10 THEN 75
         ELSE 65
    ELSE IF value.kind \in {"number", "nan"} THEN 90
    ELSE 70

\* old_value != new_value: NaN differs from every value, itself included.
NotEqual(old_value, new_value) ==
    old_value.kind = "nan" \/ new_value.kind = "nan" \/ old_value # new_value

\* _calculate_changes, lines 386-411: the entries for the fields from field
\* i of compare_fields on.
RECURSIVE ChangesFrom(_, _, _)
ChangesFrom(old_data, new_data, i) ==
    IF i > Len(compare_fields) THEN <<>>
    ELSE LET field == compare_fields[i]
             old_value == old_data[field]
             new_value == new_data[field]
         IN  (IF NotEqual(old_value, new_value) /\ ValueTruthy(new_value)
              THEN <<[field |-> field, old_value |-> old_value,
                      new_value |-> new_value,
                      confidence |-> _calculate_field_confidence(new_value)]>>
              ELSE <<>>) \o ChangesFrom(old_data, new_data, i + 1)

_calculate_changes(old_data, new_data) == ChangesFrom(old_data, new_data, 1)

\* A call of _calculate_changes.
CalculateChanges(old_data, new_data) ==
    /\ enr_call.op = "none"
    /\ enr_call' = [NoEnrichment EXCEPT
                      !.op = "_calculate_changes",
                      !.doc = old_data,
                      !.data = new_data,
                      !.result = _calculate_changes(old_data, new_data)]
    /\ UNCHANGED <<ocr_req, ocr_pc, ocr_steps, ocr_response, ocr_outcome,
                   val_call, storeVars, callVars, serviceVars, settingsVars>>

----------------------------------------------------------------------------
(* Part 5: fetch_company_info and the service it is called on *)

\* provider_type of the provider the service was built with.
ServiceKinds == {"google", "openai"}

NoFetchOutcome ==
    [status |-> "none", error |-> NoError, ai_provider |-> NoPk]
NoFetch ==
    [pc |-> "idle", use_web_search |-> FALSE, calls |-> <<>>,
     outcome |-> NoFetchOutcome]

\* A vendor call: the SDK call, the provider and key it is made with, and
\* whether it failed.
VendorCall(api, failed) ==
    [api |-> api, pk |-> _enrichment_service[1].pk,
     api_key |-> _enrichment_service[1].api_key, failed |-> failed]

\* fetch_company_info, lines 86-91: every exception is raised again as a
\* plain Exception with the message of the first.
FetchExcept(e) ==
    IF e.type = "JSONDecodeError"
    THEN WrapMsg("Exception", "cannot parse the AI response", e)
    ELSE WrapMsg("Exception", "cannot fetch the company information", e)

FetchRaise(e) ==
    fetch' = [fetch EXCEPT !.pc = "done",
                           !.outcome = [NoFetchOutcome EXCEPT
                                          !.status = "raised", !.error = e]]

\* get_enrichment_service(), lines 441-451, and ClientEnrichmentService
\* .__init__, lines 26-30: the service is built on the first call, with
\* the client get_default_ai_client() returns then, and kept.
GetEnrichmentService ==
    /\ fetch.pc = "idle"
    /\ IF _enrichment_service # <<>>
       THEN /\ fetch' = [fetch EXCEPT !.pc = "service"]
            /\ UNCHANGED _enrichment_service
       ELSE IF DefaultMatches(providers) = {}
       THEN /\ FetchRaise(Error("ProviderNotFoundError", <<"no default provider">>))
            /\ UNCHANGED _enrichment_service
       ELSE \E pk \in FirstOf(providers, DefaultMatches(providers)) :
               IF ClientOutcome(providers[pk]) # "client"
               THEN /\ FetchRaise(Error("APIKeyNotConfiguredError", <<"no API key">>))
                    /\ UNCHANGED _enrichment_service
               ELSE /\ \E kind \in ServiceKinds :
                          _enrichment_service' =
                             <<[pk |-> pk, kind |-> kind,
                                api_key |-> get_api_key(providers[pk])]>>
                    /\ fetch' = [fetch EXCEPT !.pc = "service"]
    /\ UNCHANGED <<storeVars, callVars, pipeVars, settingsVars>>

\* fetch_company_info, lines 46-57: the generation is chosen by the
\* provider type and use_web_search.
FetchCompanyInfo(use_web_search) ==
    /\ fetch.pc = "service"
    /\ fetch' = [fetch EXCEPT
                    !.use_web_search = use_web_search,
                    !.pc = IF _enrichment_service[1].kind = "google" /\ use_web_search
                           THEN "grounding" ELSE "generate"]
    /\ UNCHANGED <<_enrichment_service, storeVars, callVars, pipeVars,
                   settingsVars>>

\* _generate_with_google_grounding, lines 134-196: the SDK is missing (no
\* vendor call), or generate_content answers or fails; in the two cases of
\* failure self.ai_client.generate(prompt) is called.
GroundingCall(end) ==
    /\ fetch.pc = "grounding"
    /\ fetch' = [fetch EXCEPT
                    !.calls = IF end = "ImportError" THEN @
                              ELSE Append(@, VendorCall("generate_content",
                                                        end = "failed")),
                    !.pc = IF end = "answered" THEN "parse" ELSE "generate"]
    /\ UNCHANGED <<_enrichment_service, storeVars, callVars, pipeVars,
                   settingsVars>>

\* self.ai_client.generate(prompt): one vendor call, whose failure is an
\* APICallError.
GenerateCall(m) ==
    /\ fetch.pc = "generate"
    /\ IF m = "answered"
       THEN fetch' = [fetch EXCEPT !.calls = Append(@, VendorCall("generate", FALSE)),
                                   !.pc = "parse"]
       ELSE fetch' = [fetch EXCEPT
                        !.calls = Append(@, VendorCall("generate", TRUE)),
                        !.pc = "done",
                        !.outcome =
                           [NoFetchOutcome EXCEPT
                              !.status = "raised",
                              !.error = FetchExcept(
                                 AdapterError(_enrichment_service[1].kind, m))]]
    /\ UNCHANGED <<_enrichment_service, storeVars, callVars, pipeVars,
                   settingsVars>>

\* fetch_company_info, lines 61-91: the response parses or not.
FetchParse(parses) ==
    /\ fetch.pc = "parse"
    /\ IF parses
       THEN fetch' = [fetch EXCEPT
                        !.pc = "done",
                        !.outcome = [NoFetchOutcome EXCEPT
                                       !.status = "returned",
                                       !.ai_provider = _enrichment_service[1].pk]]
       ELSE FetchRaise(FetchExcept(
               Error("JSONDecodeError", <<"Expecting value", "char 0">>)))
    /\ UNCHANGED <<_enrichment_service, storeVars, callVars, pipeVars,
                   settingsVars>>

\* The view has answered; the next request starts.
FetchNext ==
    /\ fetch.pc = "done"
    /\ fetch' = NoFetch
    /\ UNCHANGED <<_enrichment_service, storeVars, callVars, pipeVars,
                   settingsVars>>

----------------------------------------------------------------------------
(* Part 6: concurrent saves, and the AISettings singleton                  *)
(* (ai_settings/models.py)                                                 *)

\* The requests that save concurrently.
Savers == {1, 2}
NoSaving == [p \in Savers |-> [pc |-> "idle", pk |-> NoPk, is_default |-> FALSE]]

\* The row a request saves: the stored row with the flag set, or a new one.
SavedRow(pk, is_default) ==
    IF pk = NoPk THEN WithKey([name |-> "GPT-4", is_active |-> TRUE,
                               is_default |-> is_default], <<>>)
    ELSE [providers[pk] EXCEPT !.is_default = is_default]

\* A request loads an instance (or builds a new one) and sets is_default.
BeginSave(p, pk, is_default) ==
    /\ saving[p].pc = "idle"
    /\ pk \in SavePks(providers, MaxProviders)
    /\ \A q \in Savers \ {p} :
          saving[q].pc = "idle" \/ saving[q].pk = NoPk \/ saving[q].pk # pk
    /\ saving' = [saving EXCEPT ![p] = [pc |-> "loaded", pk |-> pk,
                                        is_default |-> is_default]]
    /\ UNCHANGED <<storeVars, callVars, pipeVars, serviceVars, ai_settings,
                   settings_obj>>

\* AIProvider.save, lines 177-179: the UPDATE that demotes the others.
DemoteStep(p) ==
    /\ saving[p].pc = "loaded"
    /\ providers' = IF saving[p].is_default
                    THEN DemoteOthers(providers, saving[p].pk) ELSE providers
    /\ saving' = [saving EXCEPT ![p].pc = "demoted"]
    /\ UNCHANGED <<searches, res, callVars, pipeVars, serviceVars, ai_settings,
                   settings_obj>>

\* AIProvider.save, line 181: super().save() writes the row of the instance,
\* with the flags the instance holds.
WriteStep(p) ==
    /\ saving[p].pc = "demoted"
    /\ saving[p].pk = NoPk => Len(providers) < MaxProviders
    /\ providers' = WriteRow(providers, saving[p].pk,
                             SavedRow(saving[p].pk, saving[p].is_default))
    /\ saving' = [saving EXCEPT ![p] = [pc |-> "done",
                                        pk |-> SavedPk(providers, saving[p].pk),
                                        is_default |-> saving[p].is_default]]
    /\ UNCHANGED <<searches, res, callVars, pipeVars, serviceVars, ai_settings,
                   settings_obj>>

\* The request has been answered.
EndSave(p) ==
    /\ saving[p].pc = "done"
    /\ saving' = [saving EXCEPT ![p] = NoSaving[p]]
    /\ UNCHANGED <<storeVars, callVars, pipeVars, serviceVars, ai_settings,
                   settings_obj>>

\* Values of an AISettings row (the fields that play no part are left out);
\* the thresholds are the default and the two ends of the validators.
SettingsDefaults ==
    [ai_enabled |-> TRUE, allow_overwrite |-> FALSE, confidence_threshold |-> 70]
SettingsValues ==
    [ai_enabled : BOOLEAN, allow_overwrite : BOOLEAN,
     confidence_threshold : {0, 70, 100}]
NoSettings == [pk \in {} |-> SettingsDefaults]
NoSettingsObj ==
    [op |-> "none", pk |-> NoPk, values |-> SettingsDefaults, loaded |-> FALSE]

\* AISettings.save mutated: the pk of the instance is kept.
SettingsSaved_KeepPk(rows, pk, values) ==
    [k \in DOMAIN rows \cup {pk} |-> IF k = pk THEN values ELSE rows[k]]

\* AISettings.save, lines 369-372: self.pk = 1, then the row is written.
SettingsSaved(rows, pk, values) ==
    [k \in DOMAIN rows \cup {1} |-> IF k = 1 THEN values ELSE rows[k]]

\* An instance with any pk and values is saved (the viewset saves the
\* instance load() returned, with other values).
SettingsSave(pk, values) ==
    /\ ai_settings' = SettingsSaved(ai_settings, pk, values)
    /\ settings_obj' = [settings_obj EXCEPT !.op = "save", !.pk = 1,
                                            !.values = values]
    /\ UNCHANGED <<storeVars, callVars, pipeVars, serviceVars, saving>>

\* AISettings.delete, lines 374-376: pass (on any instance, stored or not)
SettingsDelete(pk, values) ==
    /\ settings_obj' = [settings_obj EXCEPT !.op = "delete", !.pk = pk,
                                            !.values = values]
    /\ UNCHANGED <<ai_settings, storeVars, callVars, pipeVars, serviceVars,
                   saving>>

\* AISettings.load, lines 378-382: get_or_create(pk=1)
SettingsLoad ==
    /\ ai_settings' = IF 1 \in DOMAIN ai_settings THEN ai_settings
                      ELSE SettingsSaved(ai_settings, 1, SettingsDefaults)
    /\ settings_obj' = [op |-> "load", pk |-> 1, values |-> ai_settings'[1],
                        loaded |-> TRUE]
    /\ UNCHANGED <<storeVars, callVars, pipeVars, serviceVars, saving>>

----------------------------------------------------------------------------
(* Specifications of the configuration store *)

StoreInit ==
    /\ providers = <<>>
    /\ searches = <<>>
    /\ res = NoRes

CallIdle ==
    /\ call = NoCall
    /\ pc = "idle"
    /\ client = NoClient
    /\ vcall = <<>>
    /\ conn = "none"
    /\ frames = <<>>
    /\ held = <<>>
    /\ yielded = <<>>
    /\ received = <<>>
    /\ full_response = <<>>
    /\ outcome = NoOutcome
    /\ fault = "none"

PipeIdle ==
    /\ ocr_req = NoRequest
    /\ ocr_pc = "idle"
    /\ ocr_steps = <<>>
    /\ ocr_response = NoResponse
    /\ ocr_outcome = NoOcrOutcome
    /\ val_call = NoValidation
    /\ enr_call = NoEnrichment

LateIdle ==
    /\ _enrichment_service = <<>>
    /\ fetch = NoFetch
    /\ saving = NoSaving
    /\ ai_settings = NoSettings
    /\ settings_obj = NoSettingsObj

Init == StoreInit /\ CallIdle /\ PipeIdle /\ LateIdle

\* Inputs of the saves: the flags take every value; the name and the key
\* matter to resolution only.
FlagNames == {"GPT-4"}
SavedTokens == {<<>>, Encrypt("sk-1")}

\* Saves on both tables, directly and through the serializer.
Next ==
    \/ \E pk \in 0..MaxProviders, row \in ProviderRows(FlagNames, {<<>>}) :
          SaveProvider(pk, row)
    \/ \E data \in ProviderFields(FlagNames), k \in PlainKeys :
          SerializerCreate(data, k)
    \/ \E pk \in 1..MaxProviders, data \in ProviderFields(FlagNames),
          k \in PlainKeys : SerializerUpdate(pk, data, k)
    \/ \E pk \in 0..MaxSearch, row \in SearchRows : SaveSearch(pk, row)

Spec == Init /\ [][Next]_vars

\* Saves on the provider table, with names and keys, and resolutions
\* against it.
NextResolve ==
    \/ \E pk \in 0..MaxProviders, row \in ProviderRows(Names, SavedTokens) :
          SaveProvider(pk, row)
    \/ ResolveDefault
    \/ \E id \in AskedIds : ResolveById(id)
    \/ \E name \in AskedNames : ResolveByName(name)

SpecResolve == Init /\ [][NextResolve]_vars

----------------------------------------------------------------------------
(* Claims about the configuration store *)

Defaults(rows) == {i \in DOMAIN rows : rows[i].is_default}
ActiveDefaults(rows) ==
    {i \in DOMAIN rows : rows[i].is_active /\ rows[i].is_default}

\* C3: after any sequence of AIProvider.save() calls, with any values of
\* is_active and is_default, at most one stored provider that is active has
\* is_default = true; the same for SearchEngineConfig.save().
C3_AtMostOneActiveDefault ==
    /\ Cardinality(ActiveDefaults(providers)) <= 1
    /\ Cardinality(ActiveDefaults(searches)) <= 1

\* Both tables hold two active rows, one of them the default.
C3_Witness ==
    /\ \E i, j \in DOMAIN providers :
          /\ i # j /\ providers[i].is_active /\ providers[j].is_active
          /\ providers[i].is_default
    /\ \E i, j \in DOMAIN searches :
          /\ i # j /\ searches[i].is_active /\ searches[j].is_active
          /\ searches[i].is_default

\* The validated fields of a stored row.
FieldsOf(row) ==
    [name |-> row.name, is_active |-> row.is_active,
     is_default |-> row.is_default]

\* The step is a save() of the provider record pk (None: a new record),
\* which is stored as `row` afterwards: a direct save, or the save(s) of the
\* serializer's create or update.
ProviderSaved(pk, row) ==
    \/ SaveProvider(pk, row)
    \/ pk = NoPk /\ \E k \in PlainKeys : SerializerCreate(FieldsOf(row), k)
    \/ pk # NoPk /\ \E k \in PlainKeys : SerializerUpdate(pk, FieldsOf(row), k)

\* The step is a save() of the record pk that sets its is_default to true.
DefaultSaved(pk) ==
    /\ SavedPk(providers, pk) \in DOMAIN providers'
    /\ providers'[SavedPk(providers, pk)].is_default
    /\ ProviderSaved(pk, providers'[SavedPk(providers, pk)])

\* C4 as stated: immediately after a save() of a provider record whose
\* is_default is true, exactly one active provider has is_default = true.
C4_ExactlyOneActiveDefaultAfterSave ==
    [][\A pk \in 0..MaxProviders :
          DefaultSaved(pk) => Cardinality(ActiveDefaults(providers')) = 1]_vars

\* C4 amended: immediately after a save() of a provider record whose
\* is_default is true, exactly one provider has is_default = true, the
\* saved one; it is the one active default when it was saved active, and no
\* active provider is the default when it was saved inactive.
C4_ExactlyOneDefaultAfterSave ==
    [][\A pk \in 0..MaxProviders :
          DefaultSaved(pk) =>
             /\ Defaults(providers') = {SavedPk(providers, pk)}
             /\ ActiveDefaults(providers') =
                  IF providers'[SavedPk(providers, pk)].is_active
                  THEN {SavedPk(providers, pk)} ELSE {}]_vars

\* A default was saved over another row: the store holds an inactive
\* default next to an active row that is not the default.
C4_Witness ==
    \E i, j \in DOMAIN providers :
       /\ i # j
       /\ providers[i].is_default /\ ~providers[i].is_active
       /\ providers[j].is_active /\ ~providers[j].is_default

\* C5 as stated: a resolution returns a matching active provider (the
\* active default; the active row of the id or name asked for) or fails
\* with ProviderNotFoundError, and it fails so exactly when no active row
\* matches. (A match whose key is missing is refused by the constructor.)
C5_ResolvesActiveMatchOrNotFound ==
    LET matches ==
          IF res.op = "default" THEN DefaultMatches(providers)
          ELSE IF res.op = "by_id" THEN IdMatches(providers, res.id)
          ELSE NameMatches(providers, res.name)
    IN  res.op # "none" =>
          \/ /\ res.outcome \in {"client", "APIKeyNotConfiguredError"}
             /\ res.pk \in matches
          \/ /\ res.outcome = "ProviderNotFoundError"
             /\ matches = {}

----------------------------------------------------------------------------
(* Specification of one gateway call *)

NextCall ==
    \/ Invoke
    \/ Construct
    \/ Start
    \/ \E f \in Frames : VendorFrame(f)
    \/ Deliver
    \/ Pull
    \/ Cancel
    \/ VendorEnd
    \/ \E m \in VendorMsgs : VendorError(m)
    \/ ImageStart
    \/ ImageResponse
    \/ \E m \in VendorMsgs : ImageVendorError(m)

SpecCall == Init /\ [][NextCall]_vars

----------------------------------------------------------------------------
(* Claims about a gateway call *)

RECURSIVE Flatten(_)
Flatten(chunks) ==
    IF chunks = <<>> THEN <<>> ELSE Head(chunks) \o Flatten(Tail(chunks))

\* The chunk sequence of an adapter over the frames it has read.
RECURSIVE ChunkSeq(_, _)
ChunkSeq(kind, fs) ==
    IF fs = <<>> THEN <<>>
    ELSE IF AdapterYield(kind, Head(fs)) # <<>>
         THEN <<AdapterYield(kind, Head(fs))[1]>> \o ChunkSeq(kind, Tail(fs))
         ELSE ChunkSeq(kind, Tail(fs))

\* C1: when the adapter produces its chunks without failing, generate()
\* returns exactly the concatenation, in order, of the chunks that
\* generate_stream yielded.
C1_GenerateIsConcatenation ==
    (call.entry = "generate" /\ outcome.status = "returned")
       => outcome.value = <<Flatten(yielded)>>

\* generate() has returned after three chunks, an empty one among them and
\* the other two different.
C1_Witness ==
    /\ call.entry = "generate" /\ outcome.status = "returned"
    /\ Len(yielded) = 3
    /\ \E i, j, k \in 1..3 :
         yielded[i] = <<>> /\ yielded[j] = <<"H">> /\ yielded[k] = <<"e", "l">>

Terminal(ev) == ev.type \in {"done", "error"}

\* C2: the SSE stream of a streamed call is content events followed, once
\* the stream is consumed to its end, by exactly one terminal event, the
\* last one: done when the generation completed normally, error when the
\* provider resolution or the generation failed.
C2_OneTerminalEventLast ==
    call.entry \in SseEntries =>
       /\ \A i \in 1..(Len(received) - 1) : received[i].type = "content"
       /\ outcome.status = "exhausted" =>
            /\ received # <<>>
            /\ Terminal(received[Len(received)])
            /\ received[Len(received)].type = "done" <=> fault = "none"
       /\ outcome.status # "exhausted" =>
            \A i \in 1..Len(received) : received[i].type = "content"

\* A stream that failed after chunks were delivered: content events, then
\* the error event.
C2_Witness ==
    /\ call.entry \in SseEntries
    /\ outcome.status = "exhausted"
    /\ fault = "vendor"
    /\ Len(received) = 3
    /\ received[1].type = "content" /\ received[2].type = "content"
    /\ received[3].type = "error"

\* The stored secret is empty, does not decrypt, or decrypts to nothing.
BadSecret(token) ==
    token = <<>> \/ ~Decrypt(token)[1] \/ Decrypt(token)[2] = ""

\* C6: for a provider whose stored secret is empty or cannot be decrypted,
\* constructing the client fails with APIKeyNotConfiguredError; no vendor
\* call is ever issued with an empty secret.
C6_NoClientWithoutSecret ==
    /\ (call.found /\ BadSecret(call.api_key_encrypted) /\ pc \notin {"idle", "new"})
         => /\ pc = "done"
            /\ client = NoClient
            /\ vcall = <<>>
            /\ fault = "credential"
            /\ call.entry \notin SseEntries =>
                 /\ outcome.status = "raised"
                 /\ outcome.error.type = "APIKeyNotConfiguredError"
            /\ call.entry \in SseEntries =>
                 /\ Len(received) = 1
                 /\ received[1].type = "error"
    /\ vcall # <<>> => vcall[1].api_key # ""
    /\ client # NoClient => client.api_key # ""

\* The constructor has refused a provider whose stored key does not decrypt.
C6_Witness ==
    /\ call.found
    /\ call.api_key_encrypted = <<"garbage">>
    /\ outcome.status = "raised"
    /\ outcome.error.type = "APIKeyNotConfiguredError"

C8_ParamsFromCallOrProvider ==
    /\ vcall # <<>> =>
         /\ vcall[1].max_tokens =
              Get(call.kwargs, "max_tokens", ProviderDefaults.max_tokens)
         /\ vcall[1].temperature =
              Get(call.kwargs, "temperature", ProviderDefaults.temperature)
         /\ "timeout" \in DOMAIN call.kwargs =>
              vcall[1].timeout = <<call.kwargs["timeout"]>>
         /\ "timeout" \notin DOMAIN call.kwargs =>
              vcall[1].timeout # <<StreamTimeoutLiteral>>
    /\ fault # "arguments"

\* C9 as stated: every failure that reaches the caller of generate,
\* generate_stream or generate_with_image is an APICallError that carries
\* the message of the underlying error.
C9_OnlyAPICallErrorEscapes ==
    (outcome.status = "raised" /\ outcome.stage = "call")
       => outcome.error.type = "APICallError"

\* C10 as stated: every chunk generate_stream yields, for each of the four
\* provider kinds, is a non-empty text.
C10_ChunksNonEmpty ==
    \A i \in 1..Len(yielded) : yielded[i] # <<>>

\* The error kinds a failed vendor call reaches the caller with.
VendorFailureTypes == {"APICallError"}

\* C11 as stated: generate_with_image calls exactly the image adapter of the
\* kind of the provider; for a kind without one it fails, calling no
\* adapter, with an error of a kind of its own, which a caller can tell
\* apart from a failed vendor call.
C11_DispatchOrUnsupportedModality ==
    (call.entry = "generate_with_image" /\ pc \in {"awaiting", "done"}
       /\ client # NoClient) =>
       /\ vcall # <<>> =>
            /\ ImageAdapter(client.kind) # "none"
            /\ vcall[1].adapter = ImageAdapter(client.kind)
       /\ ImageAdapter(client.kind) = "none" =>
            /\ vcall = <<>>
            /\ outcome.status = "raised"
            /\ outcome.error.type \notin VendorFailureTypes

\* C12 as stated: a Google image response that signals the MAX_TOKENS finish
\* reason never ends in a normal result; the call raises the token-limit
\* error, whether or not the response carries text.
C12_TruncationNeverReturned ==
    (call.entry = "generate_with_image" /\ client.kind = "google"
       /\ pc = "done" /\ frames # <<>>
       /\ frames[1].candidates > 0 /\ frames[1].finish_reason = "MAX_TOKENS") =>
       /\ outcome.status = "raised"
       /\ \E i \in DOMAIN outcome.error.msg :
             outcome.error.msg[i] = "token limit reached"

----------------------------------------------------------------------------
(* Specifications of the extraction pipeline *)

\* What generate_with_image ends with: a response (a text and the object
\* its object text spells), None, or the APICallError of a failed call.
Responses(texts, docs) ==
    {[none |-> FALSE, text |-> t, doc |-> d] : t \in texts, d \in docs}
GenerateErrors == {ImageExcept(AdapterError("google", m)) : m \in VendorMsgs}

NextPipeline(requests, responses) ==
    \/ \E req \in requests : OcrInvoke(req)
    \/ ViewPrecheck
    \/ OcrCheckParams
    \/ \E end \in ResolveEnds : OcrResolve(end)
    \/ \E response \in responses \cup {NoResponse} : OcrGenerate(response, NoError)
    \/ \E e \in GenerateErrors : OcrGenerate(NoResponse, e)
    \/ OcrParse

\* Every request, and every text of up to MaxTokens tokens around one
\* well-formed object.
GoodDoc ==
    ObjectDoc({"fields", "overallConfidence"}, <<<<FullField>>>>, JNum(900))
OcrTexts == SeqsUpTo(Tokens, MaxTokens)

NextOcr ==
    NextPipeline(OcrRequests({"direct", "view"}), Responses(OcrTexts, {GoodDoc}))

SpecOcr == Init /\ [][NextOcr]_vars

\* Well-formed requests, and every parsed document of up to MaxFields
\* fields.
GoodRequests ==
    {req \in OcrRequests({"direct", "view"}) :
        req.image_base64 = "img" /\ req.document_type = "invoice"}
OcrDocs == DocsOf(OcrFields, MaxFields)

NextOcrResult ==
    NextPipeline(GoodRequests,
                 Responses({<<ObjectText>>}, OcrDocs)
                   \cup Responses({<<NullText>>}, {NullDoc}))

SpecOcrResult == Init /\ [][NextOcrResult]_vars

----------------------------------------------------------------------------
(* Claims about the extraction pipeline *)

\* C14: process_ocr called with an empty image or with a document type
\* outside invoice, receipt, contract, form, other resolves no provider and
\* makes no generation call; it raises ValueError, which the view answers
\* with 400 and not with the 500 of a failed provider call.
C14_InvalidParametersFailFirst ==
    (/\ ocr_pc \in {"checked", "resolved", "generated", "done"}
     /\ ocr_outcome.status # "rejected"
     /\ \/ ocr_req.image_base64 = ""
        \/ ocr_req.document_type
             \notin {"invoice", "receipt", "contract", "form", "other"})
    => /\ ocr_pc = "done"
       /\ ocr_steps = <<>>
       /\ ocr_response = NoResponse
       /\ ocr_outcome.status = "raised"
       /\ ocr_outcome.error.type = "ValueError"
       /\ ocr_req.caller = "view" => ocr_outcome.http = 400

\* A request to the view with an unknown document type has been answered.
C14_Witness ==
    /\ ocr_pc = "done"
    /\ ocr_req.caller = "view"
    /\ ocr_req.document_type = "memo"
    /\ ocr_outcome.status = "raised"
    /\ ocr_outcome.error.type = "ValueError"
    /\ ocr_outcome.http = 400

\* The three payloads of a response, in order: the content of a fenced
\* block (between the first fence and the next one), the span from the first
\* brace to the last one, the whole trimmed text.
FenceTokens == {Fence, FenceJson}
PayloadCandidates(text) ==
    LET open == Find(text, FenceTokens, 1)
        close == IF open = 0 THEN 0 ELSE Find(text, FenceTokens, open + 1)
    IN  (IF close # 0 THEN <<SubSeq(text, open + 1, close - 1)>> ELSE <<>>)
          \o BraceGroup(text) \o <<text>>
ParsesAsJson(text) == Strip(text) \in {<<ObjectText>>, <<NullText>>}
ParseFailure(e) ==
    /\ e.type = "APICallError"
    /\ e.msg # <<>>
    /\ e.msg[1] = "cannot parse the response as JSON"

\* C15: the payload of a response is the first of its three candidates that
\* parses: process_ocr reports a parse failure only when no candidate
\* parses, and otherwise goes on with the document the candidate spells.
C15_FirstCandidateThatParses ==
    (ocr_pc = "done" /\ ocr_steps # <<>> /\ ~ocr_response.none)
    => LET candidates == PayloadCandidates(ocr_response.text)
           parsing == {i \in DOMAIN candidates : ParsesAsJson(candidates[i])}
       IN  IF parsing = {}
           THEN ocr_outcome.status = "raised" /\ ParseFailure(ocr_outcome.error)
           ELSE ~ParseFailure(ocr_outcome.error)

\* C16: when nothing of a response parses, process_ocr raises the parse
\* failure, and the error holds the beginning of the response.
C16_ParseFailureCarriesSnippet ==
    (/\ ocr_pc = "done"
     /\ ocr_steps # <<>>
     /\ ~ocr_response.none
     /\ ocr_response.text # <<>>
     /\ \A i \in DOMAIN PayloadCandidates(ocr_response.text) :
           ~ParsesAsJson(PayloadCandidates(ocr_response.text)[i]))
    => /\ ocr_outcome.status = "raised"
       /\ ParseFailure(ocr_outcome.error)
       /\ \E i \in DOMAIN ocr_outcome.error.msg :
             ocr_outcome.error.msg[i] = ocr_response.text[1]

\* The document json.loads made of the response of the finished call.
ParsedDoc ==
    IF ocr_response.text = <<NullText>> THEN NullDoc ELSE ocr_response.doc
Parsed ==
    /\ ocr_pc = "done"
    /\ ocr_steps # <<>>
    /\ ~ocr_response.none
    /\ ParsesAsJson(ocr_response.text)
SchemaViolation(e) ==
    e.type = "APICallError" /\ e.msg = <<"the response has no 'fields'">>

\* A field that lacks keys, or whose boundingBox lacks keys, and is
\* well-formed otherwise.
OnlyLacking(f) ==
    /\ "confidence" \in f.keys => f.confidence.kind = "number"
    /\ "boundingBox" \in f.keys => f.boundingBox # <<>>
SameButId(f, g) ==
    /\ f.keys \ {"id"} = g.keys \ {"id"}
    /\ f.confidence = g.confidence
    /\ f.boundingBox = g.boundingBox

\* C17 (first half): process_ocr fails with the error of a missing fields
\* key exactly when the parsed output has no fields key.
C17_SchemaViolationIffNoFields ==
    Parsed =>
       (/\ ocr_outcome.status = "raised"
        /\ SchemaViolation(ocr_outcome.error))
         <=> "fields" \notin ParsedDoc.keys

\* C17 (second half): when fields is a list, fields that only lack keys
\* never make the call fail, and are returned as received.
C17_LackingKeysNeverFail ==
    (/\ Parsed
     /\ "fields" \in ParsedDoc.keys
     /\ ParsedDoc.fields # <<>>
     /\ \A i \in DOMAIN ParsedDoc.fields[1] : OnlyLacking(ParsedDoc.fields[1][i]))
    => /\ ocr_outcome.status = "returned"
       /\ Len(ocr_outcome.value.fields[1]) = Len(ParsedDoc.fields[1])
       /\ \A i \in DOMAIN ParsedDoc.fields[1] :
             SameButId(ocr_outcome.value.fields[1][i], ParsedDoc.fields[1][i])

\* C17: process_ocr fails with the error of a missing fields key exactly
\* when the parsed output has no fields key, and fields that only lack
\* label, value, confidence, boundingBox or keys of the boundingBox never
\* make it fail and are returned as received.
C17_SchemaViolationOnlyForFields ==
    C17_SchemaViolationIffNoFields /\ C17_LackingKeysNeverFail

\* The fields of a list that have a confidence, and the sum of these.
WithConfidence(fields) == {i \in DOMAIN fields : "confidence" \in fields[i].keys}
RECURSIVE SumOver(_, _)
SumOver(fields, present) ==
    IF present = {} THEN 0
    ELSE LET i == CHOOSE i \in present : TRUE
         IN  fields[i].confidence.n + SumOver(fields, present \ {i})

\* C18 (supplied): an overallConfidence the response holds is returned.
C18_SuppliedConfidenceKept ==
    (/\ Parsed
     /\ ocr_outcome.status = "returned"
     /\ "overallConfidence" \in ParsedDoc.keys)
    => ocr_outcome.value.overallConfidence = ParsedDoc.overallConfidence

\* C18: without an overallConfidence in the response, the one returned is
\* the mean of the confidences of the fields that have one, and 0 when
\* there are no fields; a supplied one is returned unchanged.
C18_MeanOfPresentConfidences ==
    /\ C18_SuppliedConfidenceKept
    /\ (/\ Parsed
        /\ ocr_outcome.status = "returned"
        /\ "overallConfidence" \notin ParsedDoc.keys)
       => LET fields == ParsedDoc.fields[1]
              present == WithConfidence(fields)
          IN  /\ fields = <<>> => ocr_outcome.value.overallConfidence = JNum(0)
              /\ present # {} =>
                    ocr_outcome.value.overallConfidence.n * Cardinality(present)
                      = SumOver(fields, present)

----------------------------------------------------------------------------
(* Specification and claim of the validator *)

\* Fields handed to the validator: the full field, confidences absent, out
\* of range, at the two ends of the range and not numeric, and a
\* boundingBox absent, null, without a key, with a negative and with a
\* non-numeric coordinate.
ValidatedFields ==
    {FullField, DropKey(FullField, "confidence"), DropKey(FullField, "boundingBox")}
      \cup {[FullField EXCEPT !.confidence = c] :
               c \in {JNum(-250), JNum(0), JNum(1000), JNum(1250), JText}}
      \cup {[FullField EXCEPT !.boundingBox = b] :
               b \in {<<>>, <<BoxOf(BoxKeys \ {"width"}, JNum(10))>>,
                      <<[FullBox EXCEPT !["x"] = JNum(-1)]>>,
                      <<[FullBox EXCEPT !["y"] = JText]>>}}
ValidatedResults == DocsOf(ValidatedFields, MaxFields) \cup {NullDoc}

NextValidate == \E result \in ValidatedResults : Validate(result)

SpecValidate == Init /\ [][NextValidate]_vars

ConfidenceInRange(f) ==
    "confidence" \in f.keys =>
        /\ f.confidence.kind = "number"
        /\ f.confidence.n >= 0
        /\ f.confidence.n <= 1000
BoxComplete(f) ==
    "boundingBox" \in f.keys =>
        /\ f.boundingBox # <<>>
        /\ DOMAIN f.boundingBox[1] = {"x", "y", "width", "height"}
        /\ \A k \in DOMAIN f.boundingBox[1] :
              f.boundingBox[1][k].kind = "number" /\ f.boundingBox[1][k].n >= 0

\* C19: for a result whose fields is a list of any length, the verdict of
\* validate_ocr_result is true exactly when every confidence is in [0,1] and
\* every boundingBox has its four keys with numbers that are not negative.
C19_ValidIffFieldsWellFormed ==
    (/\ val_call.called
     /\ "fields" \in val_call.result.keys
     /\ val_call.result.fields # <<>>)
    => val_call.verdict =
          \A i \in DOMAIN val_call.result.fields[1] :
             /\ ConfidenceInRange(val_call.result.fields[1][i])
             /\ BoxComplete(val_call.result.fields[1][i])

\* The same for the lists that are not empty.
C19_NonEmptyLists ==
    (/\ val_call.called
     /\ "fields" \in val_call.result.keys
     /\ val_call.result.fields # <<>>
     /\ val_call.result.fields[1] # <<>>)
    => val_call.verdict =
          \A i \in DOMAIN val_call.result.fields[1] :
             /\ ConfidenceInRange(val_call.result.fields[1][i])
             /\ BoxComplete(val_call.result.fields[1][i])

----------------------------------------------------------------------------
(* Specification and claim of the enrichment *)

\* Capitals: null, NaN, a list, the numbers around the thresholds, and
\* every string of up to MaxCapitalTokens tokens.
CapitalNumbers ==
    {0, 5000, 9999, 10000, 50000, 99999, 100000, 100000000}
CapitalValues ==
    {CNull, CNaN, CList}
      \cup {CNum(n) : n \in CapitalNumbers}
      \cup {CStr(s) : s \in SeqsUpTo(CapitalTokens, MaxCapitalTokens)}

\* Objects a response spells.
EnrichmentDocs ==
    {DataOf(keys, capital, employee_count) :
        keys \in SUBSET {"capital", "employee_count"},
        capital \in {CNum(5000), CStr(<<"5", ",", "00">>), CNaN},
        employee_count \in {CNum(12), CStr(<<"5", ",", "00">>), CStr(<<"abc">>)}}

NextEnrich ==
    \/ \E value \in CapitalValues : NormalizeCapital(value)
    \/ \E text \in OcrTexts, doc \in EnrichmentDocs : ParseJsonResponse(text, doc)

SpecEnrich == Init /\ [][NextEnrich]_vars

\* The number a capital is, if it is one: a number, or a string of digits
\* and commas.
NumericCapital(value) ==
    IF value.kind = "number" THEN <<value.n>>
    ELSE IF /\ value.kind = "string"
            /\ RemoveCommas(value.s) # <<>>
            /\ \A i \in DOMAIN RemoveCommas(value.s) :
                  RemoveCommas(value.s)[i] \in DigitTokens
    THEN <<Decimal(RemoveCommas(value.s))>>
    ELSE <<>>

\* C20: _normalize_capital gives v * 10000 for a numeric capital v below
\* 100000, v itself from 100000 on, and None for an empty or non-numeric
\* one.
C20_CapitalInBaseUnit ==
    enr_call.op = "_normalize_capital" =>
       /\ enr_call.error = NoError
       /\ enr_call.result =
             IF NumericCapital(enr_call.capital) = <<>> THEN <<>>
             ELSE IF NumericCapital(enr_call.capital)[1] < 100000
             THEN <<NumericCapital(enr_call.capital)[1] * 10000>>
             ELSE <<NumericCapital(enr_call.capital)[1]>>

----------------------------------------------------------------------------
(* Specification and claim of the confidence score *)

\* Records handed to the score: each text field is missing or filled; the
\* two numeric fields take the values given.
NumericFields == {"capital", "employee_count"}
ScoredRecords(values) ==
    {[f \in DOMAIN important_fields |->
         IF f \in NumericFields THEN numbers[f]
         ELSE IF f \in filled THEN CStr(<<"abc">>) ELSE CNull] :
       filled \in SUBSET (DOMAIN important_fields \ NumericFields),
       numbers \in [NumericFields -> values]}

\* Missing, zero or a number.
NumericValues == {CNull, CNum(0), CNum(5000)}

NextScore ==
    /\ enr_call.op = "none"
    /\ \E data \in ScoredRecords(NumericValues) : CalculateConfidenceScore(data)

SpecScore == Init /\ [][NextScore]_vars

\* The percentage of the weight of a set of fields, truncated.
Percent(fields) == (100 * SumWeights(fields, 1)) \div total_weight

\* The properties of the score, for a given set of fields that count.
ScoreIsPercentOf(counted) ==
    /\ enr_call.result = <<Percent(counted)>>
    /\ enr_call.result[1] \in 0..100
    /\ enr_call.result[1] = 100 <=> counted = DOMAIN important_fields
    /\ \A f \in DOMAIN important_fields \ counted :
          _calculate_confidence_score(
             [enr_call.data EXCEPT ![f] = CStr(<<"abc">>)]) >= enr_call.result[1]

\* C21 as stated: the fields that count are those whose value is not empty
\* (not missing, not null, not the empty string, not a word for null).
C21_ScoreOfNonEmptyFields ==
    enr_call.op = "_calculate_confidence_score" =>
       ScoreIsPercentOf({f \in DOMAIN important_fields : ~Blank(enr_call.data[f])})

\* C21 amended: the fields that count are those whose value is not empty
\* and not false either (the number 0 does not count).
C21_ScoreOfTrueFields ==
    enr_call.op = "_calculate_confidence_score" =>
       ScoreIsPercentOf({f \in DOMAIN important_fields :
                            /\ ~Blank(enr_call.data[f])
                            /\ enr_call.data[f] # CNum(0)})

\* A record with a capital of 0 and some fields filled has been scored.
C21_Witness ==
    /\ enr_call.op = "_calculate_confidence_score"
    /\ enr_call.data["capital"] = CNum(0)
    /\ enr_call.data["company_name"] = CStr(<<"abc">>)
    /\ enr_call.result[1] > 0
    /\ enr_call.result[1] < 100

----------------------------------------------------------------------------
(* Specification and claim of the changes *)

\* Records that are diffed: a name (not tracked), a legal name, a capital
\* and an employee count; every other field is missing.
LongText == CStr(<<"abc", "abc", "abc", "abc">>)
DiffedRecords ==
    {[f \in DOMAIN important_fields |->
         IF f = "company_name" THEN name
         ELSE IF f = "legal_name" THEN legal
         ELSE IF f = "capital" THEN capital
         ELSE IF f = "employee_count" THEN employees
         ELSE CNull] :
       name \in {CStr(<<"abc">>), LongText},
       legal \in {CNull, CStr(<<>>), CStr(<<"abc">>), LongText},
       capital \in {CNull, CNum(0), CNum(5000)},
       employees \in {CNull, CNum(5), CNaN}}

NextChanges ==
    /\ enr_call.op = "none"
    /\ \E old_data \in DiffedRecords, new_data \in DiffedRecords :
          CalculateChanges(old_data, new_data)

SpecChanges == Init /\ [][NextChanges]_vars

\* The entries of the result for a field.
EntriesFor(f) == {i \in DOMAIN enr_call.result : enr_call.result[i].field = f}

\* C22: the result of _calculate_changes(old, new) has one entry for a
\* tracked field whose new value is not empty and differs from the old one,
\* with the two values, and no other entry; a record diffed against itself
\* gives no entry.
C22_OneEntryPerChangedField ==
    enr_call.op = "_calculate_changes" =>
       /\ \A f \in Range(compare_fields) :
             IF enr_call.doc[f] # enr_call.data[f] /\ ~Blank(enr_call.data[f])
             THEN /\ Cardinality(EntriesFor(f)) = 1
                  /\ \A i \in EntriesFor(f) :
                        /\ enr_call.result[i].old_value = enr_call.doc[f]
                        /\ enr_call.result[i].new_value = enr_call.data[f]
             ELSE EntriesFor(f) = {}
       /\ \A i \in DOMAIN enr_call.result :
             enr_call.result[i].field \in Range(compare_fields)
       /\ enr_call.doc = enr_call.data => enr_call.result = <<>>

\* C22, read with Python's comparison and truth: an entry exactly for the
\* fields whose new value is true and not equal to the old one.
C22_ReadWithPythonTruth ==
    enr_call.op = "_calculate_changes" =>
       \A f \in Range(compare_fields) :
          IF /\ enr_call.doc[f] # enr_call.data[f] \/ enr_call.data[f] = CNaN
             /\ ~Blank(enr_call.data[f])
             /\ enr_call.data[f] # CNum(0)
          THEN Cardinality(EntriesFor(f)) = 1
          ELSE EntriesFor(f) = {}

----------------------------------------------------------------------------
(* Specification and claims of fetch_company_info *)

\* Operator edits of the provider table, and requests to the enrichment
\* view, one after the other (no edit while a request is served).
NextFetch ==
    \/ /\ fetch.pc = "idle"
       /\ \E pk \in 0..MaxProviders, row \in ProviderRows(FlagNames, SavedTokens) :
             SaveProvider(pk, row)
    \/ GetEnrichmentService
    \/ \E use_web_search \in BOOLEAN : FetchCompanyInfo(use_web_search)
    \/ \E end \in {"answered", "failed", "ImportError"} : GroundingCall(end)
    \/ \E m \in VendorMsgs \cup {"answered"} : GenerateCall(m)
    \/ \E parses \in BOOLEAN : FetchParse(parses)
    \/ FetchNext

SpecFetch == Init /\ [][NextFetch]_vars

\* C23: within one fetch_company_info, a vendor call that failed is the
\* last one, and there is at most one vendor call.
C23_NoCallAfterFailure ==
    /\ Len(fetch.calls) <= 1
    /\ \A i \in DOMAIN fetch.calls :
          fetch.calls[i].failed => i = Len(fetch.calls)

\* C24: every vendor call of fetch_company_info is made with the provider
\* that is the active default when the call is made, and with its key.
C24_ServedByCurrentDefault ==
    [][Len(fetch'.calls) > Len(fetch.calls) =>
          LET c == fetch'.calls[Len(fetch'.calls)]
          IN  /\ c.pk \in DefaultMatches(providers)
              /\ c.api_key = get_api_key(providers[c.pk])]_vars

\* C25: when process_ocr fails because no provider is resolved or its key
\* is missing, the error that reaches the caller is ProviderNotFoundError or
\* APIKeyNotConfiguredError.
C25_ResolutionErrorsKeepTheirKind ==
    (/\ ocr_pc = "done"
     /\ Len(ocr_steps) = 1
     /\ ocr_outcome.status = "raised")
    => ocr_outcome.error.type
          \in {"ProviderNotFoundError", "APIKeyNotConfiguredError"}

\* C26: every vendor call, streamed or with an image, is handed a timeout.
C26_TimeoutHandedToTransport ==
    \A i \in DOMAIN vcall : vcall[i].timeout # <<>>

\* C27: every result process_ocr returns passes validate_ocr_result, and
\* the view never answers it with 500.
C27_ReturnedResultsAreValid ==
    (ocr_pc = "done" /\ ocr_outcome.status = "returned")
    => /\ validate_ocr_result(ocr_outcome.value)
       /\ ocr_req.caller = "view" => ocr_outcome.http = 200

\* The ids the response supplies are pairwise distinct.
SuppliedIdsDistinct(fields) ==
    \A i, j \in DOMAIN fields :
       (i # j /\ "id" \in fields[i].keys /\ "id" \in fields[j].keys)
          => fields[i].id # fields[j].id

\* C28: in a returned result every field has an id, a field that came with
\* one keeps it, and (the supplied ids being distinct) the ids of the
\* fields are pairwise distinct.
C28_IdsPresentKeptDistinct ==
    (/\ Parsed
     /\ ocr_outcome.status = "returned"
     /\ SuppliedIdsDistinct(ParsedDoc.fields[1]))
    => LET fields == ParsedDoc.fields[1]
           result == ocr_outcome.value.fields[1]
       IN  /\ \A i \in DOMAIN result : "id" \in result[i].keys
           /\ \A i \in DOMAIN fields :
                 "id" \in fields[i].keys => result[i].id = fields[i].id
           /\ \A i, j \in DOMAIN result : i # j => result[i].id # result[j].id

----------------------------------------------------------------------------
(* Specification and claim of the concurrent saves *)

NextConcurrent ==
    \/ \E p \in Savers, pk \in 0..MaxProviders, is_default \in BOOLEAN :
          BeginSave(p, pk, is_default)
    \/ \E p \in Savers : DemoteStep(p)
    \/ \E p \in Savers : WriteStep(p)
    \/ \E p \in Savers : EndSave(p)

SpecConcurrent == Init /\ [][NextConcurrent]_vars

\* C29: once two concurrent saves of two providers, both with is_default
\* set, have completed, at most one provider is the default.
C29_ConcurrentSavesOneDefault ==
    (\A p \in Savers : saving[p].pc = "done" /\ saving[p].is_default)
    => Cardinality(Defaults(providers)) <= 1

----------------------------------------------------------------------------
(* Specification and claim of the AISettings singleton *)

NextSettings ==
    \/ \E pk \in 0..2, values \in SettingsValues : SettingsSave(pk, values)
    \/ \E pk \in 0..2, values \in SettingsValues : SettingsDelete(pk, values)
    \/ SettingsLoad

SpecSettings == Init /\ [][NextSettings]_vars

\* C30: the table holds at most one row, of pk 1, and exactly one once
\* load() has been called; delete() removes nothing; load() creates the
\* row when it is absent and returns the stored values otherwise.
C30_SingleSettingsRow ==
    /\ [](/\ DOMAIN ai_settings \subseteq {1}
          /\ settings_obj.loaded => DOMAIN ai_settings = {1})
    /\ [][/\ settings_obj'.op = "delete" => ai_settings' = ai_settings
          /\ (settings_obj'.op = "load" /\ 1 \in DOMAIN ai_settings)
                => /\ ai_settings' = ai_settings
                   /\ settings_obj'.values = ai_settings[1]
          /\ (settings_obj'.op = "load" /\ 1 \notin DOMAIN ai_settings)
                => DOMAIN ai_settings' = {1}]_vars

\* An instance with another pk has been saved over loaded settings.
C30_Witness ==
    /\ settings_obj.loaded
    /\ settings_obj.op = "save"
    /\ DOMAIN ai_settings = {1}
    /\ ai_settings[1] # SettingsDefaults

====
